---- MODULE Spec2Model ----
(***************************************************************************)
(* Model of the FarmPro report pipeline (internal/api/reports_helpers.go   *)
(* and the generate/download handlers of internal/api/write_handlers.go):  *)
(* the metadata codec, the date-range resolver, the category aggregator    *)
(* and the download handler.                                               *)
(*                                                                         *)
(* Go strings are byte strings.  A string is modelled as a sequence of     *)
(* bytes: an ASCII byte is the one-character TLA+ string of that           *)
(* character, a non-ASCII byte is the two-character string of its hex      *)
(* value ("C8").  The only non-ASCII letter of the model is U+023A         *)
(* (bytes C8 BA), whose lower case U+2C65 has three bytes (E2 B1 A5).      *)
(***************************************************************************)
EXTENDS Integers, Sequences, FiniteSets, TLC

VARIABLES
    request,      \* codec: the body of the generate request, or NoRequest
    description,  \* codec: the description column the request stored / a stored row holds
    decoded,      \* codec: what parseReportMetadata returned for description, or NotDecoded
    legacy,       \* codec: the parts a stored legacy description was written from, or NoLegacy
    clock,        \* the current instant: day (days since 0001-01-01) and hour, in UTC
    procZone,     \* the UTC offset (hours) of time.Local, the zone time.Now() answers in
    appZone,      \* the UTC offset (hours) of s.location, loaded from APP_TIMEZONE
    rangeArg,     \* resolver: the dateRange handed to buildReportContent, or NoRange
    window,       \* resolver: what resolveDateRangeWindow returned, or NoWindow
    reports,      \* table reports: id -> row
    reportSeq,    \* the last value drawn from the id sequence of table reports
    sales,        \* table sales: a set of rows
    expenses,     \* table expenses
    animals,      \* table animals
    healthRecords,   \* table health_records
    productionLogs,  \* table production_logs
    response,     \* the answer of the last request, or NoResponse
    audit,        \* what the last download asked of the data store and which queries failed
    download,     \* the download request being answered, or NoDownload
    content,      \* renderers: the reportContent handed to a writer, or NoContent
    rendered,     \* renderers: what the writer produced for content, or NotRendered
    callArgs,     \* text helpers: the arguments of the call, or NoCall
    callResult    \* text helpers: what the call returned, or NoResult

codecVars == <<request, description, decoded, legacy>>
zoneVars == <<clock, procZone, appZone>>
windowVars == <<rangeArg, window>>
storeVars == <<reports, reportSeq, sales, expenses, animals, healthRecords, productionLogs>>
handlerVars == <<response, audit, download>>
renderVars == <<content, rendered>>
textVars == <<callArgs, callResult>>
vars == <<request, description, decoded, legacy, clock, procZone, appZone, rangeArg, window,
          reports, reportSeq, sales, expenses, animals, healthRecords, productionLogs,
          response, audit, download, content, rendered, callArgs, callResult>>

(***************************************************************************)
(* strings                                                                  *)
(***************************************************************************)
UpperAlpha == <<"A","B","C","D","E","F","G","H","I","J","K","L","M",
                "N","O","P","Q","R","S","T","U","V","W","X","Y","Z">>
LowerAlpha == <<"a","b","c","d","e","f","g","h","i","j","k","l","m",
                "n","o","p","q","r","s","t","u","v","w","x","y","z">>

\* unicode.IsSpace on the bytes the model uses
WhiteSpace == {" ", "\t", "\n"}

Min(S) == CHOOSE x \in S : \A y \in S : x <= y
Max(S) == CHOOSE x \in S : \A y \in S : x >= y

\* unicode.ToLower / unicode.ToUpper on the ASCII letters
lowerOf == [c \in {UpperAlpha[i] : i \in 1..26} |->
               LowerAlpha[CHOOSE i \in 1..26 : UpperAlpha[i] = c]]
upperOf == [c \in {LowerAlpha[i] : i \in 1..26} |->
               UpperAlpha[CHOOSE i \in 1..26 : LowerAlpha[i] = c]]

LowerByte(c) == IF c \in DOMAIN lowerOf THEN lowerOf[c] ELSE c

UpperByte(c) == IF c \in DOMAIN upperOf THEN upperOf[c] ELSE c

\* strings.ToLower: rune by rune; U+023A (2 bytes) becomes U+2C65 (3 bytes)
RECURSIVE ToLower(_)
ToLower(s) ==
    IF s = <<>> THEN <<>>
    ELSE IF Len(s) >= 2 /\ s[1] = "C8" /\ s[2] = "BA"
         THEN <<"E2", "B1", "A5">> \o ToLower(SubSeq(s, 3, Len(s)))
         ELSE <<LowerByte(s[1])>> \o ToLower(Tail(s))

\* strings.ToUpper: rune by rune; U+2C65 (3 bytes) becomes U+023A (2 bytes)
RECURSIVE ToUpper(_)
ToUpper(s) ==
    IF s = <<>> THEN <<>>
    ELSE IF Len(s) >= 3 /\ s[1] = "E2" /\ s[2] = "B1" /\ s[3] = "A5"
         THEN <<"C8", "BA">> \o ToUpper(SubSeq(s, 4, Len(s)))
         ELSE <<UpperByte(s[1])>> \o ToUpper(Tail(s))

RECURSIVE TrimLeft(_)
TrimLeft(s) ==
    IF s # <<>> /\ s[1] \in WhiteSpace THEN TrimLeft(Tail(s)) ELSE s

RECURSIVE TrimRight(_)
TrimRight(s) ==
    IF s # <<>> /\ s[Len(s)] \in WhiteSpace
    THEN TrimRight(SubSeq(s, 1, Len(s) - 1))
    ELSE s

\* strings.TrimSpace
TrimSpace(s) == TrimRight(TrimLeft(s))

\* strings.HasPrefix, strings.HasSuffix
HasPrefix(s, p) == Len(s) >= Len(p) /\ SubSeq(s, 1, Len(p)) = p
HasSuffix(s, p) == Len(s) >= Len(p) /\ SubSeq(s, Len(s) - Len(p) + 1, Len(s)) = p

\* the byte offsets (from 0) at which sub occurs in s
Occurrences(s, sub) ==
    {i \in 0..(Len(s) - Len(sub)) : SubSeq(s, i + 1, i + Len(sub)) = sub}

\* strings.Index, strings.LastIndex, strings.Contains
Index(s, sub) == IF Occurrences(s, sub) = {} THEN -1 ELSE Min(Occurrences(s, sub))
LastIndex(s, sub) == IF Occurrences(s, sub) = {} THEN -1 ELSE Max(Occurrences(s, sub))
Contains(s, sub) == Occurrences(s, sub) # {}

\* the Go slice expression s[lo:hi] for 0 <= lo <= hi <= len(s)
Slice(s, lo, hi) == SubSeq(s, lo + 1, hi)

\* strings.Split(s, sep) for a one-byte separator
RECURSIVE Split(_, _)
Split(s, sep) ==
    LET i == Index(s, <<sep>>)
    IN  IF i < 0 THEN <<s>>
        ELSE <<Slice(s, 0, i)>> \o Split(Slice(s, i + 1, Len(s)), sep)

(***************************************************************************)
(* the closed enums and the markers of the description                      *)
(***************************************************************************)
Last7Days  == <<"L", "a", "s", "t", " ", "7", " ", "d", "a", "y", "s">>
Last30Days == <<"L", "a", "s", "t", " ", "3", "0", " ", "d", "a", "y", "s">>
ThisMonth  == <<"T", "h", "i", "s", " ", "m", "o", "n", "t", "h">>
DateRanges == {Last7Days, Last30Days, ThisMonth}

PDF  == <<"P", "D", "F">>
CSV  == <<"C", "S", "V">>
JSON == <<"J", "S", "O", "N">>
Formats == {PDF, CSV, JSON}

Financial == <<"F", "i", "n", "a", "n", "c", "i", "a", "l">>
Health    == <<"H", "e", "a", "l", "t", "h">>
Resources == <<"R", "e", "s", "o", "u", "r", "c", "e", "s">>
Sales     == <<"S", "a", "l", "e", "s">>
Categories == {Financial, Health, Resources, Sales}

PipeRangeMarker == <<"|", " ", "r", "a", "n", "g", "e", "=">>
RangePrefix     == <<"r", "a", "n", "g", "e", "=">>
FormatPrefix    == <<"f", "o", "r", "m", "a", "t", "=">>
ForMarker       == <<" ", "f", "o", "r", " ">>
OpenParenMarker == <<" ", "(">>

(***************************************************************************)
(* the normalizers                                                          *)
(***************************************************************************)
\* the case labels of the switch statements on a lower-cased string
caseLabel ==
    [financial |-> <<"f", "i", "n", "a", "n", "c", "i", "a", "l">>,
     health |-> <<"h", "e", "a", "l", "t", "h">>,
     resources |-> <<"r", "e", "s", "o", "u", "r", "c", "e", "s">>,
     sales |-> <<"s", "a", "l", "e", "s">>,
     last7Days |-> <<"l", "a", "s", "t", " ", "7", " ", "d", "a", "y", "s">>,
     last30Days |-> <<"l", "a", "s", "t", " ", "3", "0", " ", "d", "a", "y", "s">>,
     thisMonth |-> <<"t", "h", "i", "s", " ", "m", "o", "n", "t", "h">>]

normalizeReportType(v) ==
    LET k == ToLower(TrimSpace(v))
    IN  IF k = caseLabel.financial THEN Financial
        ELSE IF k = caseLabel.health THEN Health
        ELSE IF k = caseLabel.resources THEN Resources
        ELSE IF k = caseLabel.sales THEN Sales
        ELSE Financial

normalizeDateRange(v) ==
    LET k == ToLower(TrimSpace(v))
    IN  IF k = caseLabel.last7Days THEN Last7Days
        ELSE IF k = caseLabel.last30Days THEN Last30Days
        ELSE IF k = caseLabel.thisMonth THEN ThisMonth
        ELSE Last7Days

normalizeReportFormat(v) ==
    LET k == ToUpper(TrimSpace(v))
    IN  IF k = PDF THEN PDF
        ELSE IF k = CSV THEN CSV
        ELSE IF k = JSON THEN JSON
        ELSE JSON

(***************************************************************************)
(* parseReportMetadata                                                      *)
(***************************************************************************)
\* a returned pair, and the run-time panic of a slice expression out of range
Metadata(r, f) == [panic |-> FALSE, dateRange |-> r, format |-> f]
SlicePanic == [panic |-> TRUE, dateRange |-> <<>>, format |-> <<>>]

\* the loop over the "|"-separated parts: a later segment overrides an earlier one
RECURSIVE parsePipeSegments(_, _, _)
parsePipeSegments(parts, dateRange, format) ==
    IF parts = <<>> THEN Metadata(dateRange, format)
    ELSE LET segment == TrimSpace(Head(parts))
         IN  IF HasPrefix(ToLower(segment), RangePrefix)
             THEN parsePipeSegments(Tail(parts),
                      normalizeDateRange(TrimSpace(Slice(segment, Len(RangePrefix), Len(segment)))),
                      format)
             ELSE IF HasPrefix(ToLower(segment), FormatPrefix)
             THEN parsePipeSegments(Tail(parts), dateRange,
                      normalizeReportFormat(TrimSpace(Slice(segment, Len(FormatPrefix), Len(segment)))))
             ELSE parsePipeSegments(Tail(parts), dateRange, format)

\* the legacy free-text form "... for <range> (<FORMAT>)"
parseLegacy(desc) ==
    LET p == LastIndex(desc, <<"(">>)
        format == IF p >= 0 /\ HasSuffix(desc, <<")">>) /\ p < Len(desc) - 1
                  THEN normalizeReportFormat(Slice(desc, p + 1, Len(desc) - 1))
                  ELSE JSON
        \* the offset is found in the lower-cased copy and applied to desc itself
        i == Index(ToLower(desc), ForMarker)
    IN  IF i < 0 THEN Metadata(Last7Days, format)
        ELSE IF i + 5 > Len(desc) THEN SlicePanic
        ELSE LET rest == TrimSpace(Slice(desc, i + 5, Len(desc)))
                 j == LastIndex(rest, OpenParenMarker)
                 cut == IF j > 0 THEN TrimSpace(Slice(rest, 0, j)) ELSE rest
             IN  Metadata(normalizeDateRange(cut), format)

parseReportMetadata(d) ==
    LET desc == TrimSpace(d)
    IN  IF desc = <<>> THEN Metadata(Last7Days, JSON)
        ELSE IF Contains(ToLower(desc), PipeRangeMarker)
             THEN parsePipeSegments(Split(desc, "|"), Last7Days, JSON)
             ELSE parseLegacy(desc)

(***************************************************************************)
(* time.Time: a wall clock (year, month, day, hour) in a zone               *)
(***************************************************************************)
IsLeap(y) == (y % 4 = 0 /\ y % 100 # 0) \/ y % 400 = 0

daysIn(y, m) ==
    IF m = 2 THEN (IF IsLeap(y) THEN 29 ELSE 28)
    ELSE IF m \in {4, 6, 9, 11} THEN 30 ELSE 31

\* days from 0001-01-01 to the first day of year y
daysBeforeYear(y) ==
    365 * (y - 1) + ((y - 1) \div 4) - ((y - 1) \div 100) + ((y - 1) \div 400)

RECURSIVE daysBeforeMonth(_, _)
daysBeforeMonth(y, m) ==
    IF m = 1 THEN 0 ELSE daysBeforeMonth(y, m - 1) + daysIn(y, m - 1)

absDay(y, m, d) == daysBeforeYear(y) + daysBeforeMonth(y, m) + d - 1

yearOfDay(n) ==
    CHOOSE y \in (n \div 366)..((n \div 365) + 1) :
        daysBeforeYear(y) <= n /\ n < daysBeforeYear(y + 1)

monthOfDay(n) ==
    LET y == yearOfDay(n)
    IN  CHOOSE m \in 1..12 : absDay(y, m, 1) <= n /\ n < absDay(y, m, 1) + daysIn(y, m)

\* the calendar date of a day number
civil(n) ==
    LET y == yearOfDay(n)
        m == monthOfDay(n)
    IN  [y |-> y, m |-> m, d |-> n - absDay(y, m, 1) + 1]

\* time.Date(y, m, d, h, 0, 0, 0, loc), with d normalized into the calendar
Date(y, m, d, h, zone) ==
    LET c == civil(absDay(y, m, 1) + d - 1)
    IN  [y |-> c.y, m |-> c.m, d |-> c.d, h |-> h, zone |-> zone]

\* t.AddDate(0, 0, days)
AddDate(t, days) == Date(t.y, t.m, t.d + days, t.h, t.zone)

\* the instant c as a time.Time in a zone: time.Now() is timeIn(clock, procZone)
timeIn(c, zone) ==
    LET hours == c.day * 24 + c.hour + zone
        date == civil(hours \div 24)
    IN  [y |-> date.y, m |-> date.m, d |-> date.d, h |-> hours % 24, zone |-> zone]

\* t.Format("2006-01-02")
formatDay(t) == [y |-> t.y, m |-> t.m, d |-> t.d]

\* !t.After(u), for two times of the same zone
notAfter(t, u) ==
    absDay(t.y, t.m, t.d) * 24 + t.h - t.zone <= absDay(u.y, u.m, u.d) * 24 + u.h - u.zone

\* resolveDateRangeWindow with the default branch a day longer
resolveDateRangeWindowOff(dateRange, now) ==
    LET end == now
        r == normalizeDateRange(dateRange)
    IN  IF r = Last30Days THEN [start |-> AddDate(end, -29), end |-> end]
        ELSE IF r = ThisMonth THEN [start |-> Date(end.y, end.m, 1, 0, end.zone), end |-> end]
        ELSE [start |-> AddDate(end, -7), end |-> end]

resolveDateRangeWindow(dateRange, now) ==
    LET end == now
        r == normalizeDateRange(dateRange)
    IN  IF r = Last30Days THEN [start |-> AddDate(end, -29), end |-> end]
        ELSE IF r = ThisMonth THEN [start |-> Date(end.y, end.m, 1, 0, end.zone), end |-> end]
        ELSE [start |-> AddDate(end, -6), end |-> end]

\* buildReportContent: the window it resolves from time.Now()
reportWindow(dateRange, c, localZone) ==
    resolveDateRangeWindow(dateRange, timeIn(c, localZone))

\* Server.now(): time.Now().In(s.location)
serverNow(c, location) == timeIn(c, location)

(***************************************************************************)
(* the resolver on its own: instants, zones and range strings               *)
(***************************************************************************)
NoClock == [none |-> TRUE]
NoRange == [none |-> TRUE]
NoWindow == [none |-> TRUE]

ZonesIdle == clock = NoClock /\ procZone = 0 /\ appZone = 0
WindowIdle == rangeArg = NoRange /\ window = NoWindow

NoResponse == [none |-> TRUE]
NoAudit == [none |-> TRUE]
NoDownload == [none |-> TRUE]
NoContent == [none |-> TRUE]
NotRendered == [none |-> TRUE]
NoCall == [none |-> TRUE]
NoResult == [none |-> TRUE]

\* no writer and no text helper called
RenderIdle == content = NoContent /\ rendered = NotRendered
TextIdle == callArgs = NoCall /\ callResult = NoResult

\* no table read, no request answered
StoreIdle ==
    /\ reports = <<>>
    /\ reportSeq = 0
    /\ sales = {}
    /\ expenses = {}
    /\ animals = {}
    /\ healthRecords = {}
    /\ productionLogs = {}
    /\ response = NoResponse
    /\ audit = NoAudit
    /\ download = NoDownload

(***************************************************************************)
(* handleGenerateReport: the row it inserts                                 *)
(***************************************************************************)
\* fmt.Sprintf("%s Report (%s)", in.ReportType, in.DateRange)
defaultTitle(reportType, dateRange) ==
    reportType \o <<" ", "R", "e", "p", "o", "r", "t", " ", "(">> \o dateRange \o <<")">>

\* the description with the format separated by a comma instead of a bar
sprintfDescriptionComma(reportType, dateRange, format) ==
    <<"G", "e", "n", "e", "r", "a", "t", "e", "d", " ">> \o ToLower(reportType)
        \o <<" ", "r", "e", "p", "o", "r", "t">>
        \o <<" ", "|", " ", "r", "a", "n", "g", "e", "=">> \o dateRange
        \o <<",", " ", "f", "o", "r", "m", "a", "t", "=">> \o format

\* fmt.Sprintf("Generated %s report | range=%s | format=%s", ...)
sprintfDescription(reportType, dateRange, format) ==
    <<"G", "e", "n", "e", "r", "a", "t", "e", "d", " ">> \o ToLower(reportType)
        \o <<" ", "r", "e", "p", "o", "r", "t">>
        \o <<" ", "|", " ", "r", "a", "n", "g", "e", "=">> \o dateRange
        \o <<" ", "|", " ", "f", "o", "r", "m", "a", "t", "=">> \o format

\* the values of the INSERT for a request body in
generatedRow(in) ==
    LET dateRange == normalizeDateRange(TrimSpace(in.dateRange))
        reportType == normalizeReportType(TrimSpace(in.reportType))
        format == normalizeReportFormat(TrimSpace(in.format))
        title == IF TrimSpace(in.title) = <<>>
                 THEN defaultTitle(reportType, dateRange)
                 ELSE TrimSpace(in.title)
    IN  [title |-> title,
         description |-> sprintfDescription(reportType, dateRange, format),
         category |-> reportType]

(***************************************************************************)
(* the codec on its own: requests and stored descriptions                   *)
(***************************************************************************)
NoRequest == [none |-> TRUE]
NotDecoded == [none |-> TRUE]
NoLegacy == [none |-> TRUE]

ReportTypeInputs ==
    {Financial, Health, Resources, Sales,
     <<" ", "s", "a", "l", "e", "s", " ">>,
     <<>>,
     <<"c", "r", "o", "p", "s">>}

DateRangeInputs ==
    {Last7Days, Last30Days, ThisMonth,
     <<"l", "a", "s", "t", " ", "3", "0", " ", "d", "a", "y", "s">>,
     <<>>,
     <<"Y", "e", "s", "t", "e", "r", "d", "a", "y">>,
     <<"x", " ", "|", " ", "r", "a", "n", "g", "e", "=", "T", "h", "i", "s", " ", "m", "o", "n", "t", "h">>}

FormatInputs ==
    {PDF, CSV, JSON,
     <<"c", "s", "v">>,
     <<>>,
     <<"x", "m", "l">>,
     <<"x", " ", "|", " ", "f", "o", "r", "m", "a", "t", "=", "P", "D", "F">>}

\* "<leading text> for <range> (<FORMAT>)", the form handleReports writes its detail in
legacyDescription(leading, dateRange, format) ==
    leading \o <<" ", "f", "o", "r", " ">> \o dateRange \o <<" ", "(">> \o format \o <<")">>

LeadingTexts ==
    {<<"G", "e", "n", "e", "r", "a", "t", "e", "d", " ", "s", "a", "l", "e", "s", " ", "r", "e", "p", "o", "r", "t">>,
     <<"R", "e", "p", "o", "r", "t">>,
     <<"F", "A", "R", "M", " ", "R", "E", "P", "O", "R", "T">>,
     <<"S", "a", "l", "e", "s", " ", "f", "o", "r", " ", "M", "a", "r", "c", "h">>,
     <<>>,
     <<"C8", "BA">>}

\* descriptions of stored rows that are in neither form
FreeDescriptions ==
    {<<>>,
     <<" ", " ">>,
     <<"M", "o", "n", "t", "h", "l", "y", " ", "s", "u", "m", "m", "a", "r", "y">>,
     <<"C8", "BA", "C8", "BA">>,
     <<"(", "P", "D", "F", ")">>,
     <<"S", "u", "m", "m", "a", "r", "y", " ", "(", "o", "l", "d", ")">>,
     <<"C", "o", "w", "s", " ", "f", "o", "r", " ", "s", "a", "l", "e">>,
     <<"C8", "BA", "C8", "BA", " ", "f", "o", "r", " ", "x">>}

StoredRows ==
    {[description |-> legacyDescription(l, r, f),
      parts |-> [leading |-> l, dateRange |-> r, format |-> f]] :
        l \in LeadingTexts, r \in DateRanges, f \in Formats}
    \cup {[description |-> d, parts |-> NoLegacy] : d \in FreeDescriptions}

NoDescription == [none |-> TRUE]

CodecIdle ==
    /\ request = NoRequest
    /\ description = NoDescription
    /\ decoded = NotDecoded
    /\ legacy = NoLegacy

InitCodec == CodecIdle /\ ZonesIdle /\ WindowIdle /\ StoreIdle /\ RenderIdle /\ TextIdle

\* POST /api/reports/generate: the description the handler stores
GenerateDescription ==
    /\ description = NoDescription
    /\ \E t \in ReportTypeInputs, r \in DateRangeInputs, f \in FormatInputs :
          LET in == [reportType |-> t, dateRange |-> r, format |-> f, title |-> <<>>]
          IN  /\ request' = in
              /\ description' = generatedRow(in).description
    /\ UNCHANGED <<decoded, legacy, zoneVars, windowVars, storeVars, handlerVars, renderVars, textVars>>

\* the SELECT of a row that an earlier release or another writer stored
ReadStoredRow ==
    /\ description = NoDescription
    /\ \E row \in StoredRows :
          /\ description' = row.description
          /\ legacy' = row.parts
    /\ UNCHANGED <<request, decoded, zoneVars, windowVars, storeVars, handlerVars, renderVars, textVars>>

\* the download and list handlers decode the stored description
DecodeDescription ==
    /\ description # NoDescription
    /\ decoded = NotDecoded
    /\ decoded' = parseReportMetadata(description)
    /\ UNCHANGED <<request, description, legacy, zoneVars, windowVars, storeVars, handlerVars, renderVars, textVars>>

NextCodec == GenerateDescription \/ ReadStoredRow \/ DecodeDescription

SpecCodec == InitCodec /\ [][NextCodec]_vars

(***************************************************************************)
(* the resolver run at an instant, in a process zone and a server zone      *)
(***************************************************************************)
\* the instants explored: MaxClockDay days from 2023-12-01 (a year's end, a leap February)
MaxClockDay == 121
ClockDays == {absDay(2023, 12, 1) + k : k \in 0..MaxClockDay}
ClockHours == {0, 12, 22}
Zones == {-5, 0, 3}

InitWindow ==
    /\ CodecIdle
    /\ WindowIdle
    /\ StoreIdle
    /\ RenderIdle
    /\ TextIdle
    /\ clock \in [day : ClockDays, hour : ClockHours]
    /\ procZone \in Zones
    /\ appZone \in Zones

\* buildReportContent, line 117: the window of a download at this instant
ResolveWindow ==
    /\ window = NoWindow
    /\ \E r \in DateRangeInputs :
          /\ rangeArg' = r
          /\ window' = reportWindow(r, clock, procZone)
    /\ UNCHANGED <<codecVars, zoneVars, storeVars, handlerVars, renderVars, textVars>>

NextWindow == ResolveWindow

SpecWindow == InitWindow /\ [][NextWindow]_vars

(***************************************************************************)
(* the data store a download reads                                         *)
(***************************************************************************)
\* LIMIT 250 of every row query
ReportRowLimit == 250

\* the day of the requests: 2024-03-02
Today == absDay(2024, 3, 2)

MaxRows == 3

SaleRows ==
    { [id |-> 1, sale_date |-> Today, product |-> "Milk", quantity_value |-> 10,
       quantity_unit |-> "L", buyer |-> "Dairy Co", buyer_pin |-> "P051",
       vat_applicable |-> TRUE, vat_rate |-> 16, vat_amount |-> 16, net_amount |-> 100,
       price_per_unit |-> 10, total_amount |-> 116],
      [id |-> 2, sale_date |-> Today, product |-> "Eggs", quantity_value |-> 5,
       quantity_unit |-> "tray", buyer |-> "Kiosk", buyer_pin |-> "",
       vat_applicable |-> FALSE, vat_rate |-> 0, vat_amount |-> 0, net_amount |-> 50,
       price_per_unit |-> 10, total_amount |-> 50],
      [id |-> 3, sale_date |-> Today - 6, product |-> "Wool", quantity_value |-> 2,
       quantity_unit |-> "kg", buyer |-> "Weaver", buyer_pin |-> "",
       vat_applicable |-> FALSE, vat_rate |-> 0, vat_amount |-> 0, net_amount |-> 20,
       price_per_unit |-> 10, total_amount |-> 20] }

ExpenseRows ==
    { [id |-> 1, expense_date |-> Today, category |-> "Feed", item |-> "Hay",
       vendor |-> "Agrovet", amount |-> 30],
      [id |-> 2, expense_date |-> Today - 7, category |-> "Vet", item |-> "Vaccine",
       vendor |-> "Clinic", amount |-> 40] }

AnimalRows ==
    { [id |-> 1, tag_id |-> "COW-1", health_status |-> "healthy", is_active |-> TRUE],
      [id |-> 2, tag_id |-> "COW-2", health_status |-> "sick", is_active |-> TRUE],
      [id |-> 3, tag_id |-> "EWE-3", health_status |-> "sick", is_active |-> FALSE] }

HealthRecordRows ==
    { [id |-> 1, animal_id |-> 1, record_date |-> Today, action |-> "Vaccination",
       treatment |-> "FMD", veterinarian |-> "Dr A"],
      [id |-> 2, animal_id |-> 2, record_date |-> Today, action |-> "Treatment",
       treatment |-> "Antibiotic", veterinarian |-> "Dr B"] }

\* log_date is UNIQUE
ProductionLogRows ==
    { [id |-> 1, log_date |-> Today, milk_liters |-> 20, eggs_count |-> 12,
       wool_kg |-> 0, total_value |-> 900],
      [id |-> 2, log_date |-> Today - 1, milk_liters |-> 18, eggs_count |-> 10,
       wool_kg |-> 1, total_value |-> 850] }

\* a DATE column scanned into a time.Time: midnight UTC of that day
dateValue(day) == [day |-> day, hour |-> 0]

\* the rows of table reports: four written by handleGenerateReport and one in the
\* older description format with a category outside the enum
ExistingReports ==
    LET stored(in, at) == generatedRow(in) @@ [last_generated |-> at]
        yesterday == dateValue(Today - 1)
        earlier == dateValue(Today - 2)
    IN  << stored([reportType |-> Financial, dateRange |-> Last7Days, format |-> PDF,
                   title |-> <<>>], yesterday),
           stored([reportType |-> Health, dateRange |-> <<"t", "h", "i", "s", " ", "m", "o", "n", "t", "h">>,
                   format |-> <<"c", "s", "v">>, title |-> <<"H", "e", "r", "d">>], earlier),
           stored([reportType |-> Resources, dateRange |-> Last30Days, format |-> JSON,
                   title |-> <<>>], yesterday),
           stored([reportType |-> Sales, dateRange |-> Last7Days, format |-> CSV,
                   title |-> <<>>], yesterday),
           [title |-> <<"O", "l", "d", " ", "c", "r", "o", "p", "s", " ", "r", "e", "p", "o", "r", "t">>,
            description |-> legacyDescription(
                <<"G", "e", "n", "e", "r", "a", "t", "e", "d", " ", "c", "r", "o", "p", "s", " ", "r", "e", "p", "o", "r", "t">>,
                Last30Days, CSV),
            category |-> <<"C", "r", "o", "p", "s">>,
            last_generated |-> yesterday] >>

\* SUM over the values of a function, 0 over none (COALESCE(SUM(..), 0))
RECURSIVE Sum(_)
Sum(f) ==
    IF DOMAIN f = {} THEN 0
    ELSE LET x == CHOOSE x \in DOMAIN f : TRUE
         IN  f[x] + Sum([y \in DOMAIN f \ {x} |-> f[y]])

\* date BETWEEN $1 AND $2 with $1, $2 the formatted days of the window
between(day, w) ==
    LET first == formatDay(w.start)
        last == formatDay(w.end)
    IN  absDay(first.y, first.m, first.d) <= day /\ day <= absDay(last.y, last.m, last.d)

\* sort keys of ORDER BY: tuples compared from the left
keyLess(a, b) ==
    \E i \in 1..Len(a) : a[i] < b[i] /\ \A j \in 1..(i - 1) : a[j] = b[j]

\* every sequence in which ORDER BY k DESC may return the rows of S: rows with
\* equal keys come in any order
RECURSIVE Orders(_)
Orders(S) ==
    IF S = {} THEN {<<>>}
    ELSE UNION { {<<x>> \o o : o \in Orders(S \ {x})} :
                 x \in {x \in S : \A y \in S : ~keyLess(x.k, y.k)} }

\* LIMIT n
Limit(rows, n) == SubSeq(rows, 1, Min({Len(rows), n}))

\* Server.formatISODate of an instant
formatISODate(d, location) == formatDay(timeIn(d, location))

(***************************************************************************)
(* buildReportContent                                                      *)
(***************************************************************************)
\* the QueryRow(...).Scan calls of a category, whose errors are dropped (_ =)
summaryQueries(category) ==
    IF category = Health THEN {"healthy", "attention", "sick"}
    ELSE IF category = Resources THEN {"production_logs"}
    ELSE IF category = Sales THEN {"sales"}
    ELSE {"sales", "expenses"}

\* SELECT COUNT(*) FROM animals WHERE is_active AND health_status = status; a
\* failed Scan leaves the variable 0
healthCount(db, status, failed) ==
    IF status \in failed THEN 0
    ELSE Cardinality({a \in db.animals : a.is_active /\ a.health_status = status})

healthSummary(db, w, failed) ==
    [healthy |-> healthCount(db, "healthy", failed),
     attention |-> healthCount(db, "attention", failed),
     sick |-> healthCount(db, "sick", failed)]

resourcesSummary(db, w, failed) ==
    LET logs == IF "production_logs" \in failed THEN {}
                ELSE {l \in db.productionLogs : between(l.log_date, w)}
    IN  [milkLiters |-> Sum([l \in logs |-> l.milk_liters]),
         eggsCount |-> Sum([l \in logs |-> l.eggs_count]),
         woolKg |-> Sum([l \in logs |-> l.wool_kg]),
         totalValue |-> Sum([l \in logs |-> l.total_value])]

salesSummary(db, w, failed) ==
    LET sold == IF "sales" \in failed THEN {}
                ELSE {s \in db.sales : between(s.sale_date, w)}
        grossRevenue == Sum([s \in sold |-> s.total_amount])
    IN  [totalRevenue |-> grossRevenue,
         grossRevenue |-> grossRevenue,
         netRevenue |-> Sum([s \in sold |-> s.net_amount]),
         vatCollected |-> Sum([s \in sold |-> s.vat_amount]),
         transactions |-> Cardinality(sold)]

\* the Financial summary without the totalRevenue entry
financialSummaryNoTotal(db, w, failed) ==
    LET sold == IF "sales" \in failed THEN {}
                ELSE {s \in db.sales : between(s.sale_date, w)}
        spent == IF "expenses" \in failed THEN {}
                 ELSE {e \in db.expenses : between(e.expense_date, w)}
        netRevenue == Sum([s \in sold |-> s.net_amount])
        expense == Sum([e \in spent |-> e.amount])
    IN  [grossRevenue |-> Sum([s \in sold |-> s.total_amount]),
         netRevenue |-> netRevenue,
         vatCollected |-> Sum([s \in sold |-> s.vat_amount]),
         totalExpenses |-> expense,
         profit |-> netRevenue - expense]

financialSummary(db, w, failed) ==
    LET sold == IF "sales" \in failed THEN {}
                ELSE {s \in db.sales : between(s.sale_date, w)}
        spent == IF "expenses" \in failed THEN {}
                 ELSE {e \in db.expenses : between(e.expense_date, w)}
        grossRevenue == Sum([s \in sold |-> s.total_amount])
        netRevenue == Sum([s \in sold |-> s.net_amount])
        expense == Sum([e \in spent |-> e.amount])
    IN  [totalRevenue |-> grossRevenue,
         grossRevenue |-> grossRevenue,
         netRevenue |-> netRevenue,
         vatCollected |-> Sum([s \in sold |-> s.vat_amount]),
         totalExpenses |-> expense,
         profit |-> netRevenue - expense]

\* the rows each row query selects, before ORDER BY and LIMIT: k is the ORDER BY
\* key, src the table and id of the row, rec the record appended for it
healthRows(db, w, location) ==
    { [k |-> <<h.record_date, h.id>>, src |-> <<"health_records", h.id>>,
       rec |-> [date |-> formatISODate(dateValue(h.record_date), location),
                animalTagId |-> a.tag_id, action |-> h.action,
                treatment |-> h.treatment, veterinarian |-> h.veterinarian]] :
      <<h, a>> \in {p \in db.healthRecords \X db.animals :
                      p[2].id = p[1].animal_id /\ between(p[1].record_date, w)} }

resourcesRows(db, w, location) ==
    { [k |-> <<l.log_date>>, src |-> <<"production_logs", l.id>>,
       rec |-> [date |-> formatISODate(dateValue(l.log_date), location),
                milkLiters |-> l.milk_liters, eggsCount |-> l.eggs_count,
                woolKg |-> l.wool_kg, totalValue |-> l.total_value]] :
      l \in {x \in db.productionLogs : between(x.log_date, w)} }

salesRows(db, w, location) ==
    { [k |-> <<s.sale_date, s.id>>, src |-> <<"sales", s.id>>,
       rec |-> [date |-> formatISODate(dateValue(s.sale_date), location),
                product |-> s.product, quantityValue |-> s.quantity_value,
                quantityUnit |-> s.quantity_unit, buyer |-> s.buyer,
                buyerPIN |-> s.buyer_pin, vatApplicable |-> s.vat_applicable,
                vatRate |-> s.vat_rate, vatAmount |-> s.vat_amount,
                netAmount |-> s.net_amount, pricePerUnit |-> s.price_per_unit,
                totalAmount |-> s.total_amount]] :
      s \in {x \in db.sales : between(x.sale_date, w)} }

\* the UNION ALL of sales and expenses, ORDER BY entry_date alone
financialRows(db, w, location) ==
    { [k |-> <<s.sale_date>>, src |-> <<"sales", s.id>>,
       rec |-> [date |-> formatISODate(dateValue(s.sale_date), location),
                type |-> "sale", item |-> s.product, amount |-> s.total_amount]] :
      s \in {x \in db.sales : between(x.sale_date, w)} }
    \cup
    { [k |-> <<e.expense_date>>, src |-> <<"expenses", e.id>>,
       rec |-> [date |-> formatISODate(dateValue(e.expense_date), location),
                type |-> "expense", item |-> e.item, amount |-> e.amount * (-1)]] :
      e \in {x \in db.expenses : between(x.expense_date, w)} }

selectedRows(category, db, w, location) ==
    IF category = Health THEN healthRows(db, w, location)
    ELSE IF category = Resources THEN resourcesRows(db, w, location)
    ELSE IF category = Sales THEN salesRows(db, w, location)
    ELSE financialRows(db, w, location)

\* what the row query and the loop over rows.Next() can come to: the query
\* fails, a Scan fails, the iteration ends on an error after some rows
\* (rows.Err() is not read), or every row is delivered
rowOutcomes(category, db, w, location) ==
    LET results == {Limit(o, ReportRowLimit) :
                      o \in Orders(selectedRows(category, db, w, location))}
    IN  {[kind |-> "queryError", rows |-> <<>>]}
        \cup UNION { {[kind |-> "scanError", rows |-> SubSeq(r, 1, n)] :
                        n \in 0..(Len(r) - 1)} : r \in results }
        \cup UNION { {[kind |-> "iterationError", rows |-> SubSeq(r, 1, n)] :
                        n \in 0..Len(r)} : r \in results }
        \cup {[kind |-> "complete", rows |-> r] : r \in results}

\* buildReportContent(ctx, id, title, category, dateRange, generated, format)
\* against the store db at the instant now, given which summary queries failed
\* and what the row query came to; sources names the row behind each record
buildReportContent(id, title, category, dateRange, generated, format, db, now, zones, failed, result) ==
    LET w == reportWindow(dateRange, now, zones.process)
        c == normalizeReportType(category)
        summary == IF c = Health THEN healthSummary(db, w, failed)
                   ELSE IF c = Resources THEN resourcesSummary(db, w, failed)
                   ELSE IF c = Sales THEN salesSummary(db, w, failed)
                   ELSE financialSummary(db, w, failed)
    IN  [err |-> result.kind \in {"queryError", "scanError"},
         sources |-> [i \in 1..Len(result.rows) |-> result.rows[i].src],
         content |-> [id |-> id,
                      title |-> title,
                      category |-> c,
                      dateRange |-> normalizeDateRange(dateRange),
                      format |-> normalizeReportFormat(format),
                      generatedOn |-> formatISODate(generated, zones.app),
                      summary |-> summary,
                      records |-> [i \in 1..Len(result.rows) |-> result.rows[i].rec]]]

(***************************************************************************)
(* handleDownloadReport                                                    *)
(***************************************************************************)
NoReport == [none |-> TRUE]

\* respondJSON(w, status, {"error": ...})
errorResponse(status) ==
    [status |-> status, contentType |-> "application/json", filename |-> <<>>,
     report |-> NoReport]

\* the handler panicked: net/http drops the connection
Aborted == [status |-> 0, contentType |-> "", filename |-> <<>>, report |-> NoReport]

Digits == <<"0", "1", "2", "3", "4", "5", "6", "7", "8", "9">>

\* strings.ReplaceAll(s, old, new) for a one-byte old
RECURSIVE ReplaceByte(_, _, _)
ReplaceByte(s, old, new) ==
    IF s = <<>> THEN <<>>
    ELSE (IF s[1] = old THEN new ELSE <<s[1]>>) \o ReplaceByte(Tail(s), old, new)

\* the name with blanks replaced and nothing else taken out
reportFilenameUnfiltered(title) ==
    LET base == ReplaceByte(ToLower(TrimSpace(title)), " ", <<"-">>)
    IN  IF base = <<>> THEN <<"r", "e", "p", "o", "r", "t">> ELSE base

reportFilename(title) ==
    LET \* the strings.Map: keeps a-z, 0-9 and "-", drops every other rune
        RECURSIVE keepFilenameRunes(_)
        keepFilenameRunes(s) ==
            IF s = <<>> THEN <<>>
            ELSE (IF s[1] \in DOMAIN upperOf \/ s[1] = "-"
                     \/ \E i \in 1..10 : Digits[i] = s[1]
                  THEN <<s[1]>> ELSE <<>>) \o keepFilenameRunes(Tail(s))
        base == keepFilenameRunes(ReplaceByte(ToLower(TrimSpace(title)), " ", <<"-">>))
    IN  IF base = <<>> THEN <<"r", "e", "p", "o", "r", "t">> ELSE base

\* the extension of the Content-Disposition filename each writer sets
extensionOf(format) ==
    IF format = CSV THEN <<".", "c", "s", "v">>
    ELSE IF format = PDF THEN <<".", "p", "d", "f">>
    ELSE <<".", "j", "s", "o", "n">>

\* the format handed to buildReportContent, always normalized, with the stored
\* one standing in for every parameter
requestedFormatNoParam(formatParam, storedFormat) == storedFormat

\* the format handed to buildReportContent
requestedFormat(formatParam, storedFormat) ==
    IF TrimSpace(formatParam) = <<>> THEN storedFormat
    ELSE normalizeReportFormat(formatParam)

contentTypeOf(format) ==
    IF format = CSV THEN "text/csv; charset=utf-8"
    ELSE IF format = PDF THEN "application/pdf"
    ELSE "application/json"

\* the ids asked for: 0 is refused, the last one has no row
RequestedIds == 0..(Len(ExistingReports) + 1)

\* the format query parameter
FormatParams == {<<>>, <<" ">>, <<"c", "s", "v">>, <<"x", "m", "l">>}

\* the instant and the zones of the requests: noon UTC, APP_TIMEZONE three hours
\* east of the process zone
RequestClock == [day |-> Today, hour |-> 12]
RequestZones == [process |-> 0, app |-> 3]

Init ==
    /\ CodecIdle
    /\ WindowIdle
    /\ clock = RequestClock
    /\ procZone = RequestZones.process
    /\ appZone = RequestZones.app
    /\ RenderIdle
    /\ TextIdle
    /\ reports = ExistingReports
    /\ reportSeq = Len(ExistingReports)
    /\ animals = AnimalRows
    /\ sales \in SUBSET SaleRows
    /\ expenses \in SUBSET ExpenseRows
    /\ healthRecords \in SUBSET HealthRecordRows
    /\ productionLogs \in SUBSET ProductionLogRows
    /\ Cardinality(sales) + Cardinality(expenses) + Cardinality(healthRecords)
           + Cardinality(productionLogs) <= MaxRows
    /\ response = NoResponse
    /\ audit = NoAudit
    /\ download = NoDownload

DownloadReport ==
    /\ response = NoResponse
    /\ \E id \in RequestedIds, formatParam \in FormatParams, lookup \in {"row", "error"} :
        /\ download' = [id |-> id, format |-> formatParam, lookup |-> lookup]
        /\ IF id <= 0
          THEN response' = errorResponse(400) /\ audit' = NoAudit
          ELSE IF id \notin DOMAIN reports \/ lookup = "error"
          THEN response' = errorResponse(404) /\ audit' = NoAudit
          ELSE \E meta \in {parseReportMetadata(reports[id].description)} :
                 IF meta.panic
                 THEN response' = Aborted /\ audit' = NoAudit
                 ELSE \E format \in {requestedFormat(formatParam, meta.format)},
                         category \in {normalizeReportType(reports[id].category)},
                         w \in {reportWindow(meta.dateRange, clock, procZone)},
                         db \in {[sales |-> sales, expenses |-> expenses,
                                  animals |-> animals, healthRecords |-> healthRecords,
                                  productionLogs |-> productionLogs]} :
                        \E failed \in SUBSET summaryQueries(category),
                           result \in rowOutcomes(category, db, w, appZone) :
                            LET built == buildReportContent(id, reports[id].title,
                                            reports[id].category, meta.dateRange,
                                            reports[id].last_generated, format,
                                            db, clock, [process |-> procZone, app |-> appZone],
                                            failed, result)
                            IN  /\ response' =
                                     IF built.err THEN errorResponse(500)
                                     ELSE [status |-> 200,
                                           contentType |-> contentTypeOf(built.content.format),
                                           filename |-> reportFilename(reports[id].title)
                                                          \o extensionOf(built.content.format),
                                           report |-> built.content]
                                /\ audit' = [id |-> id, failed |-> failed,
                                             rows |-> result.kind, sources |-> built.sources]
    /\ UNCHANGED <<codecVars, zoneVars, windowVars, storeVars, renderVars, textVars>>

\* the client has read the answer; the next request may come
Answered ==
    /\ response # NoResponse
    /\ response' = NoResponse
    /\ audit' = NoAudit
    /\ download' = NoDownload
    /\ UNCHANGED <<codecVars, zoneVars, windowVars, storeVars, renderVars, textVars>>

Next == DownloadReport \/ Answered

Spec == Init /\ [][Next]_vars

(***************************************************************************)
(* handleGenerateReport, and generate and download requests on one store   *)
(***************************************************************************)
MaxReports == 2

\* a body json.Decode rejects
InvalidBody == [invalid |-> TRUE]

\* the bodies of the generate requests
GenerateBodies ==
    { [reportType |-> Sales, dateRange |-> Last7Days, format |-> CSV,
       title |-> <<"H", "e", "r", "d">>],
      [reportType |-> <<"h", "e", "a", "l", "t", "h">>, dateRange |-> ThisMonth,
       format |-> <<"p", "d", "f">>, title |-> <<>>],
      [reportType |-> <<"C", "r", "o", "p", "s">>, dateRange |-> <<>>,
       format |-> <<>>, title |-> <<" ">>] }

\* INSERT INTO reports ... writing the new row over the first one
insertReportFirst(table, id, row) ==
    [i \in DOMAIN table \cup {1} |-> IF i = 1 THEN row ELSE table[i]]

\* INSERT INTO reports(...) VALUES (...) RETURNING id
insertReport(table, id, row) ==
    [i \in DOMAIN table \cup {id} |-> IF i = id THEN row ELSE table[i]]

\* a sequence value is drawn for the id even when the INSERT then fails
GenerateReport ==
    /\ response = NoResponse
    /\ reportSeq < MaxReports
    /\ \E body \in GenerateBodies \cup {InvalidBody}, insert \in {"row", "error", "unsent"} :
          IF body = InvalidBody
          THEN response' = errorResponse(400) /\ UNCHANGED <<reports, reportSeq>>
          ELSE IF insert = "unsent"
          THEN response' = errorResponse(500) /\ UNCHANGED <<reports, reportSeq>>
          ELSE IF insert = "error"
          THEN /\ response' = errorResponse(500)
               /\ reportSeq' = reportSeq + 1
               /\ UNCHANGED reports
          ELSE LET row == generatedRow(body)
                   format == normalizeReportFormat(TrimSpace(body.format))
               IN  /\ reportSeq' = reportSeq + 1
                   /\ reports' = insertReport(reports, reportSeq + 1,
                                     row @@ [last_generated |-> dateValue(clock.day)])
                   /\ response' =
                        [status |-> 201, contentType |-> "application/json",
                         filename |-> <<>>,
                         report |-> [id |-> reportSeq + 1, title |-> row.title,
                                     description |-> row.description,
                                     category |-> row.category, format |-> format]]
    /\ audit' = NoAudit
    /\ download' = NoDownload
    /\ UNCHANGED <<codecVars, zoneVars, windowVars, renderVars, textVars,
                   sales, expenses, animals, healthRecords, productionLogs>>

\* an empty reports table over a store of one sale and one expense
InitLedger ==
    /\ CodecIdle
    /\ WindowIdle
    /\ RenderIdle
    /\ TextIdle
    /\ clock = RequestClock
    /\ procZone = RequestZones.process
    /\ appZone = RequestZones.app
    /\ reports = <<>>
    /\ reportSeq = 0
    /\ animals = AnimalRows
    /\ sales = {s \in SaleRows : s.id = 1}
    /\ expenses = {e \in ExpenseRows : e.id = 1}
    /\ healthRecords = {h \in HealthRecordRows : h.id = 1}
    /\ productionLogs = {}
    /\ response = NoResponse
    /\ audit = NoAudit
    /\ download = NoDownload

NextLedger == GenerateReport \/ DownloadReport \/ Answered

SpecLedger == InitLedger /\ [][NextLedger]_vars

(***************************************************************************)
(* text helpers: numbers and truncation                                    *)
(***************************************************************************)
\* A float64 is modelled by the integer number of 1/1024ths it holds: every
\* such value is exact in binary, so math.Mod and the rounding of
\* strconv.FormatFloat are exact on it.
FractionUnit == 1024

\* strconv.Itoa
RECURSIVE digitsOf(_)
digitsOf(n) == IF n < 10 THEN <<Digits[n + 1]>> ELSE digitsOf(n \div 10) \o <<Digits[(n % 10) + 1]>>

Itoa(n) == IF n < 0 THEN <<"-">> \o digitsOf(0 - n) ELSE digitsOf(n)

\* strconv.FormatFloat(v, 'f', 2, 64): the nearest hundredth, a tie to the even one
FormatFloat2(v) ==
    LET a == IF v < 0 THEN 0 - v ELSE v
        q == (a * 100) \div FractionUnit
        r == (a * 100) % FractionUnit
        h == IF 2 * r > FractionUnit \/ (2 * r = FractionUnit /\ q % 2 = 1) THEN q + 1 ELSE q
    IN  (IF v < 0 THEN <<"-">> ELSE <<>>) \o digitsOf(h \div 100) \o <<".">>
            \o <<Digits[((h \div 10) % 10) + 1], Digits[(h % 10) + 1]>>

\* trimZero: math.Mod(v, 1) == 0 decides
trimZero(v) ==
    IF v % FractionUnit = 0
    THEN (IF v < 0 THEN Itoa(0 - ((0 - v) \div FractionUnit)) ELSE Itoa(v \div FractionUnit))
    ELSE FormatFloat2(v)

formatKES(v) == <<"K", "S", "h", " ">> \o trimZero(v)

\* a value of type any: its dynamic type and what it holds.  A float64 holds a
\* number of 1/1024ths, an int64 a whole number, a string its bytes.
Float64(n) == [kind |-> "float64", v |-> n]
Int64(n) == [kind |-> "int64", v |-> n]
String(s) == [kind |-> "string", v |-> s]
Bool(b) == [kind |-> "bool", v |-> b]

\* the decimal digits of the fraction r/1024 (0 < r < 1024), which end
RECURSIVE fractionDigits(_)
fractionDigits(r) ==
    IF r = 0 THEN <<>>
    ELSE <<Digits[((r * 10) \div FractionUnit) + 1]>> \o fractionDigits((r * 10) % FractionUnit)

\* fmt.Sprint(v): %v of a float64 below 1e6 in magnitude is its shortest
\* decimal text, which for a number of 1/1024ths is its exact expansion
Sprint(x) ==
    IF x.kind = "nil" THEN <<"<", "n", "i", "l", ">">>
    ELSE IF x.kind = "string" THEN x.v
    ELSE IF x.kind = "bool" THEN (IF x.v THEN <<"t", "r", "u", "e">> ELSE <<"f", "a", "l", "s", "e">>)
    ELSE IF x.kind = "int64" THEN Itoa(x.v)
    ELSE LET a == IF x.v < 0 THEN 0 - x.v ELSE x.v
         IN  (IF x.v < 0 THEN <<"-">> ELSE <<>>) \o digitsOf(a \div FractionUnit)
                 \o (IF a % FractionUnit = 0 THEN <<>>
                     ELSE <<".">> \o fractionDigits(a % FractionUnit))

\* asFloat64: the second result, and the first one in 1/1024ths
isNumber(x) == x.kind \in {"float64", "int64"}
asFloat64(x) == IF x.kind = "int64" THEN x.v * FractionUnit ELSE x.v

formatAnyCurrency(x) == IF isNumber(x) THEN formatKES(asFloat64(x)) ELSE Sprint(x)

formatAnyNumber(x) == IF isNumber(x) THEN trimZero(asFloat64(x)) ELSE Sprint(x)

\* shortenPDFText keeping one byte more before the dots
shortenPDFTextLong(s, max) ==
    LET v == TrimSpace(s)
    IN  IF max <= 3 \/ Len(v) <= max THEN v
        ELSE SubSeq(v, 1, max - 2) \o <<".", ".", ".">>

shortenPDFText(s, max) ==
    LET v == TrimSpace(s)
    IN  IF max <= 3 \/ Len(v) <= max THEN v
        ELSE SubSeq(v, 1, max - 3) \o <<".", ".", ".">>

\* the case labels of formatSummaryValue
summaryLabels ==
    [currency |->
            {<<"g", "r", "o", "s", "s", "r", "e", "v", "e", "n", "u", "e">>,
             <<"n", "e", "t", "r", "e", "v", "e", "n", "u", "e">>,
             <<"p", "r", "o", "f", "i", "t">>,
             <<"t", "o", "t", "a", "l", "e", "x", "p", "e", "n", "s", "e", "s">>,
             <<"t", "o", "t", "a", "l", "r", "e", "v", "e", "n", "u", "e">>,
             <<"v", "a", "t", "c", "o", "l", "l", "e", "c", "t", "e", "d">>,
             <<"t", "o", "t", "a", "l", "v", "a", "l", "u", "e">>},
     count |->
            {<<"t", "r", "a", "n", "s", "a", "c", "t", "i", "o", "n", "s">>,
             <<"h", "e", "a", "l", "t", "h", "y">>,
             <<"a", "t", "t", "e", "n", "t", "i", "o", "n">>,
             <<"s", "i", "c", "k">>,
             <<"e", "g", "g", "s", "c", "o", "u", "n", "t">>},
     number |->
            {<<"m", "i", "l", "k", "l", "i", "t", "e", "r", "s">>,
             <<"w", "o", "o", "l", "k", "g">>}]

\* math.Round: the nearest integer, a half away from zero
Round(v) ==
    LET a == IF v < 0 THEN 0 - v ELSE v
        q == (2 * a + FractionUnit) \div (2 * FractionUnit)
    IN  IF v < 0 THEN 0 - q ELSE q

formatSummaryValue(key, value) ==
    LET k == ToLower(TrimSpace(key))
    IN  IF k \in summaryLabels.currency THEN formatAnyCurrency(value)
        ELSE IF k \in summaryLabels.count
             THEN (IF isNumber(value) THEN Itoa(Round(asFloat64(value))) ELSE Sprint(value))
        ELSE IF k \in summaryLabels.number THEN formatAnyNumber(value)
        ELSE IF isNumber(value) THEN trimZero(asFloat64(value)) ELSE Sprint(value)

(***************************************************************************)
(* maps of strings and sort.Strings                                        *)
(***************************************************************************)
\* the rank of each byte of the model in ascending order: ASCII, then the
\* bytes of the two non-ASCII runes
byteRank ==
    LET AsciiOrder ==
            <<" ", "!", "#", "%", "&", "(", ")", "*", "+", ",", "-", ".", "/", "0", "1", "2",
            "3", "4", "5", "6", "7", "8", "9", ":", ";", "<", "=", ">", "?", "@", "A", "B",
            "C", "D", "E", "F", "G", "H", "I", "J", "K", "L", "M", "N", "O", "P", "Q", "R",
            "S", "T", "U", "V", "W", "X", "Y", "Z", "[", "\\", "]", "^", "_", "a", "b", "c",
            "d", "e", "f", "g", "h", "i", "j", "k", "l", "m", "n", "o", "p", "q", "r", "s",
            "t", "u", "v", "w", "x", "y", "z", "{", "|", "}", "~", "A5", "B1", "BA", "C8",
            "E2">>
    IN  [c \in {AsciiOrder[i] : i \in 1..Len(AsciiOrder)} |->
            CHOOSE i \in 1..Len(AsciiOrder) : AsciiOrder[i] = c]

\* a < b on Go strings: bytewise, a proper prefix first
lessString(a, b) ==
    \/ \E i \in 1..Min({Len(a), Len(b)}) :
           /\ byteRank[a[i]] < byteRank[b[i]]
           /\ \A j \in 1..(i - 1) : a[j] = b[j]
    \/ Len(a) < Len(b) /\ SubSeq(b, 1, Len(a)) = a

\* sort.Strings
RECURSIVE sortStrings(_)
sortStrings(keys) ==
    LET RECURSIVE insertSorted(_, _)
        insertSorted(sorted, x) ==
            IF sorted = <<>> THEN <<x>>
            ELSE IF lessString(x, Head(sorted)) THEN <<x>> \o sorted
            ELSE <<Head(sorted)>> \o insertSorted(Tail(sorted), x)
    IN  IF keys = <<>> THEN <<>> ELSE insertSorted(sortStrings(Tail(keys)), Head(keys))

\* the keys of the maps the aggregator builds
Key ==
    [date |-> <<"d", "a", "t", "e">>,
     type |-> <<"t", "y", "p", "e">>,
     item |-> <<"i", "t", "e", "m">>,
     amount |-> <<"a", "m", "o", "u", "n", "t">>,
     product |-> <<"p", "r", "o", "d", "u", "c", "t">>,
     quantityValue |-> <<"q", "u", "a", "n", "t", "i", "t", "y", "V", "a", "l", "u", "e">>,
     quantityUnit |-> <<"q", "u", "a", "n", "t", "i", "t", "y", "U", "n", "i", "t">>,
     buyer |-> <<"b", "u", "y", "e", "r">>,
     buyerPIN |-> <<"b", "u", "y", "e", "r", "P", "I", "N">>,
     vatApplicable |-> <<"v", "a", "t", "A", "p", "p", "l", "i", "c", "a", "b", "l", "e">>,
     vatRate |-> <<"v", "a", "t", "R", "a", "t", "e">>,
     vatAmount |-> <<"v", "a", "t", "A", "m", "o", "u", "n", "t">>,
     netAmount |-> <<"n", "e", "t", "A", "m", "o", "u", "n", "t">>,
     pricePerUnit |-> <<"p", "r", "i", "c", "e", "P", "e", "r", "U", "n", "i", "t">>,
     totalAmount |-> <<"t", "o", "t", "a", "l", "A", "m", "o", "u", "n", "t">>,
     milkLiters |-> <<"m", "i", "l", "k", "L", "i", "t", "e", "r", "s">>,
     eggsCount |-> <<"e", "g", "g", "s", "C", "o", "u", "n", "t">>,
     woolKg |-> <<"w", "o", "o", "l", "K", "g">>,
     totalValue |-> <<"t", "o", "t", "a", "l", "V", "a", "l", "u", "e">>,
     animalTagId |-> <<"a", "n", "i", "m", "a", "l", "T", "a", "g", "I", "d">>,
     action |-> <<"a", "c", "t", "i", "o", "n">>,
     treatment |-> <<"t", "r", "e", "a", "t", "m", "e", "n", "t">>,
     veterinarian |-> <<"v", "e", "t", "e", "r", "i", "n", "a", "r", "i", "a", "n">>,
     grossRevenue |-> <<"g", "r", "o", "s", "s", "R", "e", "v", "e", "n", "u", "e">>,
     netRevenue |-> <<"n", "e", "t", "R", "e", "v", "e", "n", "u", "e">>,
     profit |-> <<"p", "r", "o", "f", "i", "t">>,
     totalExpenses |-> <<"t", "o", "t", "a", "l", "E", "x", "p", "e", "n", "s", "e", "s">>,
     totalRevenue |-> <<"t", "o", "t", "a", "l", "R", "e", "v", "e", "n", "u", "e">>,
     vatCollected |-> <<"v", "a", "t", "C", "o", "l", "l", "e", "c", "t", "e", "d">>,
     transactions |-> <<"t", "r", "a", "n", "s", "a", "c", "t", "i", "o", "n", "s">>,
     healthy |-> <<"h", "e", "a", "l", "t", "h", "y">>,
     attention |-> <<"a", "t", "t", "e", "n", "t", "i", "o", "n">>,
     sick |-> <<"s", "i", "c", "k">>]

\* the ascending sequence of a set of strings
RECURSIVE ascending(_)
ascending(S) ==
    IF S = {} THEN <<>>
    ELSE LET least == CHOOSE x \in S : \A y \in S \ {x} : lessString(x, y)
         IN  <<least>> \o ascending(S \ {least})

\* `for k := range m`: the keys of a map come in an order the runtime picks anew
\* for each loop; order tells which one: the ascending keys or their reverse,
\* started from the key number order.shift
mapRange(m, order) ==
    LET keys == ascending(DOMAIN m)
        from == IF order.reverse THEN [i \in 1..Len(keys) |-> keys[Len(keys) + 1 - i]]
                ELSE keys
    IN  IF from = <<>> THEN from
        ELSE [i \in 1..Len(from) |-> from[((i - 1 + order.shift) % Len(from)) + 1]]

\* m[key] of a map[string]any: nil for a key the map does not hold
Nil == [kind |-> "nil", v |-> 0]
get(m, key) == IF key \in DOMAIN m THEN m[key] ELSE Nil

(***************************************************************************)
(* the record table of the PDF                                             *)
(***************************************************************************)
\* strings.Join
RECURSIVE Join(_, _)
Join(parts, sep) ==
    IF parts = <<>> THEN <<>>
    ELSE IF Len(parts) = 1 THEN parts[1]
    ELSE parts[1] \o sep \o Join(Tail(parts), sep)

titleWord(v) ==
    LET s == ToLower(TrimSpace(v))
    IN  IF s = <<>> THEN <<>> ELSE ToUpper(SubSeq(s, 1, 1)) \o SubSeq(s, 2, Len(s))

\* headersByCategory[category], and the two headers of every other category
highlightHeaders(category) ==
    IF category = caseLabel.financial
    THEN <<<<"#">>, <<"D", "a", "t", "e">>, <<"T", "y", "p", "e">>, <<"I", "t", "e", "m">>, <<"A", "m", "o", "u", "n", "t">>>>
    ELSE IF category = caseLabel.sales
    THEN <<<<"#">>, <<"D", "a", "t", "e">>, <<"P", "r", "o", "d", "u", "c", "t">>, <<"Q", "t", "y">>, <<"B", "u", "y", "e", "r">>, <<"T", "o", "t", "a", "l">>>>
    ELSE IF category = caseLabel.resources
    THEN <<<<"#">>, <<"D", "a", "t", "e">>, <<"M", "i", "l", "k", " ", "(", "L", ")">>, <<"E", "g", "g", "s">>, <<"W", "o", "o", "l", " ", "(", "K", "g", ")">>, <<"V", "a", "l", "u", "e">>>>
    ELSE IF category = caseLabel.health
    THEN <<<<"#">>, <<"D", "a", "t", "e">>, <<"T", "a", "g">>, <<"A", "c", "t", "i", "o", "n">>, <<"T", "r", "e", "a", "t", "m", "e", "n", "t">>, <<"V", "e", "t">>>>
    ELSE <<<<"#">>, <<"D", "e", "t", "a", "i", "l", "s">>>>

\* strings.TrimSpace(fmt.Sprintf("%s %s", formatAnyNumber(quantityValue), quantityUnit))
quantityText(r) ==
    TrimSpace(formatAnyNumber(get(r, Key.quantityValue)) \o <<" ">>
                  \o Sprint(get(r, Key.quantityUnit)))

formatRecordHighlight(category, record, order) ==
    LET c == ToLower(TrimSpace(category))
        bar == <<" ", "|", " ">>
    IN  IF c = caseLabel.financial
        THEN Sprint(get(record, Key.date)) \o bar \o titleWord(Sprint(get(record, Key.type)))
                 \o bar \o Sprint(get(record, Key.item)) \o bar
                 \o formatAnyCurrency(get(record, Key.amount))
        ELSE IF c = caseLabel.sales
        THEN Sprint(get(record, Key.date)) \o bar \o Sprint(get(record, Key.product))
                 \o bar \o quantityText(record) \o bar \o Sprint(get(record, Key.buyer))
                 \o bar \o formatAnyCurrency(get(record, Key.totalAmount))
        ELSE IF c = caseLabel.resources
        THEN Sprint(get(record, Key.date)) \o <<" ", "|", " ", "M", "i", "l", "k", " ">>
                 \o formatAnyNumber(get(record, Key.milkLiters)) \o <<" ", "L", " ", "|", " ", "E", "g", "g", "s", " ">>
                 \o formatAnyNumber(get(record, Key.eggsCount)) \o <<" ", "|", " ", "W", "o", "o", "l", " ">>
                 \o formatAnyNumber(get(record, Key.woolKg)) \o <<" ", "K", "g", " ", "|", " ">>
                 \o formatAnyCurrency(get(record, Key.totalValue))
        ELSE IF c = caseLabel.health
        THEN Sprint(get(record, Key.date)) \o <<" ", "|", " ", "T", "a", "g", " ">>
                 \o Sprint(get(record, Key.animalTagId)) \o bar
                 \o Sprint(get(record, Key.action)) \o bar
                 \o Sprint(get(record, Key.treatment)) \o <<" ", "|", " ", "V", "e", "t", ":", " ">>
                 \o Sprint(get(record, Key.veterinarian))
        ELSE LET keys == sortStrings(mapRange(record, order))
             IN  Join([i \in 1..Len(keys) |-> keys[i] \o <<"=">> \o Sprint(record[keys[i]])],
                      bar)

\* the number of rows of a table over n records, with no cap
maxHighlightRowsAll(n) == n

\* maxRows: at most 12 rows
maxHighlightRows(n) == IF n > 12 THEN 12 ELSE n

\* buildRecordHighlights(report): headers, rows and overflow note; order is the
\* iteration order of a record map
buildRecordHighlights(report, order) ==
    IF Len(report.records) = 0
    THEN [headers |-> <<<<"#">>, <<"D", "e", "t", "a", "i", "l", "s">>>>,
          rows |-> << <<<<"1">>, <<"N", "o", " ", "r", "e", "c", "o", "r", "d", "s", " ", "a", "v", "a", "i", "l", "a", "b", "l", "e", " ", "i", "n", " ", "t", "h", "i", "s", " ", "r", "a", "n", "g", "e", ".">>>> >>,
          overflow |-> <<>>]
    ELSE LET category == ToLower(TrimSpace(report.category))
             maxRows == maxHighlightRows(Len(report.records))
             \* the cells of the row of record r after its number
             cells(r) ==
                 IF category = caseLabel.financial
                 THEN <<Sprint(get(r, Key.date)), titleWord(Sprint(get(r, Key.type))),
                        Sprint(get(r, Key.item)), formatAnyCurrency(get(r, Key.amount))>>
                 ELSE IF category = caseLabel.sales
                 THEN <<Sprint(get(r, Key.date)), Sprint(get(r, Key.product)), quantityText(r),
                        Sprint(get(r, Key.buyer)), formatAnyCurrency(get(r, Key.totalAmount))>>
                 ELSE IF category = caseLabel.resources
                 THEN <<Sprint(get(r, Key.date)), formatAnyNumber(get(r, Key.milkLiters)),
                        formatAnyNumber(get(r, Key.eggsCount)), formatAnyNumber(get(r, Key.woolKg)),
                        formatAnyCurrency(get(r, Key.totalValue))>>
                 ELSE IF category = caseLabel.health
                 THEN <<Sprint(get(r, Key.date)), Sprint(get(r, Key.animalTagId)),
                        Sprint(get(r, Key.action)), Sprint(get(r, Key.treatment)),
                        Sprint(get(r, Key.veterinarian))>>
                 ELSE <<formatRecordHighlight(report.category, r, order)>>
         IN  [headers |-> highlightHeaders(category),
              rows |-> [i \in 1..maxRows |-> <<Itoa(i)>> \o cells(report.records[i])],
              overflow |-> IF Len(report.records) > maxRows
                           THEN Itoa(Len(report.records) - maxRows)
                                    \o <<" ", "a", "d", "d", "i", "t", "i", "o", "n", "a", "l", " ", "r", "e", "c", "o", "r", "d", "s", " ", "n", "o", "t", " ", "s", "h", "o", "w", "n", ".">>
                           ELSE <<>>]

(***************************************************************************)
(* writeCSVReport                                                          *)
(***************************************************************************)
\* encoding/csv fieldNeedsQuotes with the comma ','
fieldNeedsQuotes(field) ==
    /\ field # <<>>
    /\ \/ field = <<"\\", ".">>
       \/ \E i \in 1..Len(field) : field[i] \in {"\n", "\r", "\"", ","}
       \/ field[1] \in WhiteSpace

\* csv.Writer.Write(record): the fields between commas, a field that needs
\* quotes inside quotes with every quote doubled, then a line feed
csvRecord(record) ==
    LET csvField(field) ==
            IF fieldNeedsQuotes(field)
            THEN <<"\"">> \o ReplaceByte(field, "\"", <<"\"", "\"">>) \o <<"\"">>
            ELSE field
    IN  Join([i \in 1..Len(record) |-> csvField(record[i])], <<",">>) \o <<"\n">>

\* the strings of parts one after the other
RECURSIVE Concat(_)
Concat(parts) ==
    IF parts = <<>> THEN <<>>
    ELSE IF Len(parts) = 1 THEN parts[1]
    ELSE LET h == Len(parts) \div 2
         IN  Concat(SubSeq(parts, 1, h)) \o Concat(SubSeq(parts, h + 1, Len(parts)))

\* the summary keys in map order, unsorted
csvSummaryKeysUnsorted(summary, order) == mapRange(summary, order)

\* keys: the summary keys after sort.Strings
csvSummaryKeys(summary, order) == sortStrings(mapRange(summary, order))

\* writeCSVReport(w, report): the records handed to csv.Writer.Write in turn
\* and the bytes written; order is the iteration order of the maps
writeCSVReport(report, order) ==
    LET keys == csvSummaryKeys(report.summary, order)
        head == << <<<<"r", "e", "p", "o", "r", "t", "_", "i", "d">>, Itoa(report.id)>>,
                   <<<<"t", "i", "t", "l", "e">>, report.title>>,
                   <<<<"c", "a", "t", "e", "g", "o", "r", "y">>, report.category>>,
                   <<<<"d", "a", "t", "e", "_", "r", "a", "n", "g", "e">>, report.dateRange>>,
                   <<<<"g", "e", "n", "e", "r", "a", "t", "e", "d", "_", "o", "n">>, report.generatedOn>>,
                   <<>>,
                   <<<<"s", "u", "m", "m", "a", "r", "y", "_", "k", "e", "y">>, <<"s", "u", "m", "m", "a", "r", "y", "_", "v", "a", "l", "u", "e">>>> >>
        summary == [i \in 1..Len(keys) |-> <<keys[i], Sprint(report.summary[keys[i]])>>]
        recordKeys == IF report.records = <<>> THEN <<>>
                      ELSE sortStrings(mapRange(report.records[1], order))
        data == IF report.records = <<>> THEN << <<<<"r", "e", "c", "o", "r", "d", "s">>, <<"n", "o", "n", "e">>>> >>
                ELSE <<recordKeys>>
                       \o [i \in 1..Len(report.records) |->
                             [j \in 1..Len(recordKeys) |->
                                Sprint(get(report.records[i], recordKeys[j]))]]
        written == head \o summary \o << <<>> >> \o data
    IN  [records |-> written,
         body |-> Concat([i \in 1..Len(written) |-> csvRecord(written[i])])]

(***************************************************************************)
(* writePDFReport and buildStyledPDF                                       *)
(***************************************************************************)
\* pdfEscape: the backslashes first, then the two parentheses
pdfEscape(s) ==
    ReplaceByte(ReplaceByte(ReplaceByte(s, "\\", <<"\\", "\\">>), "(", <<"\\", "(">>),
                ")", <<"\\", ")">>)

\* strings.Fields: the maximal runs of bytes that are not white space
RECURSIVE Fields(_)
Fields(s) ==
    IF s = <<>> THEN <<>>
    ELSE IF s[1] \in WhiteSpace THEN Fields(Tail(s))
    ELSE LET stops == {i \in 1..Len(s) : s[i] \in WhiteSpace}
             n == IF stops = {} THEN Len(s) ELSE Min(stops) - 1
         IN  <<SubSeq(s, 1, n)>> \o Fields(SubSeq(s, n + 1, Len(s)))

wrapPDFText(input, max) ==
    LET words == Fields(TrimSpace(input))
        \* the loop over the words after the first
        RECURSIVE wrapWords(_, _)
        wrapWords(current, rest) ==
            IF rest = <<>> THEN <<current>>
            ELSE IF Len(current) + 1 + Len(Head(rest)) <= max
            THEN wrapWords(current \o <<" ">> \o Head(rest), Tail(rest))
            ELSE <<current>> \o wrapWords(Head(rest), Tail(rest))
    IN  IF words = <<>> THEN << <<>> >> ELSE wrapWords(Head(words), Tail(words))

\* categoryTheme, in hundredths
categoryTheme(category) ==
    LET c == ToLower(TrimSpace(category))
    IN  IF c = caseLabel.health THEN <<66, 27, 24>>
        ELSE IF c = caseLabel.resources THEN <<31, 40, 18>>
        ELSE IF c = caseLabel.sales THEN <<12, 34, 48>>
        ELSE <<14, 45, 30>>

\* fmt.Sprintf("%.2f %.2f %.2f", r*f, g*f, b*f) for the theme (r, g, b) and a
\* factor f, all in hundredths.  The two products that fall on a half
\* (0.30*0.85, 0.45*0.9) are float64 values above it, so every product rounds
\* as its decimal value with the half upwards.
themeText(theme, f) ==
    LET colorText(c) ==
            LET h == (c * f + 50) \div 100
            IN  digitsOf(h \div 100)
                    \o <<".", Digits[((h \div 10) % 10) + 1], Digits[(h % 10) + 1]>>
    IN  colorText(theme[1]) \o <<" ">> \o colorText(theme[2]) \o <<" ">>
            \o colorText(theme[3])

\* the line taken whole for the value, as if it held no colon
parseMetricLineWhole(line) ==
    [key |-> <<"m", "e", "t", "r", "i", "c">>, value |-> TrimSpace(line)]

parseMetricLine(line) ==
    LET v == TrimSpace(line)
        i == Index(v, <<":">>)
    IN  IF i < 0 THEN [key |-> <<"m", "e", "t", "r", "i", "c">>, value |-> v]
        ELSE [key |-> TrimSpace(Slice(v, 0, i)), value |-> TrimSpace(Slice(v, i + 1, Len(v)))]

prettyMetricLabel(raw) ==
    LET known ==
            (Key.grossRevenue :> <<"G", "r", "o", "s", "s", " ", "R", "e", "v", "e", "n", "u", "e">>) @@ (Key.netRevenue :> <<"N", "e", "t", " ", "R", "e", "v", "e", "n", "u", "e">>)
            @@ (Key.profit :> <<"P", "r", "o", "f", "i", "t">>) @@ (Key.totalExpenses :> <<"T", "o", "t", "a", "l", " ", "E", "x", "p", "e", "n", "s", "e", "s">>)
            @@ (Key.totalRevenue :> <<"T", "o", "t", "a", "l", " ", "R", "e", "v", "e", "n", "u", "e">>)
            @@ (Key.vatCollected :> <<"V", "A", "T", " ", "C", "o", "l", "l", "e", "c", "t", "e", "d">>)
            @@ (Key.transactions :> <<"T", "r", "a", "n", "s", "a", "c", "t", "i", "o", "n", "s">>)
            @@ (Key.milkLiters :> <<"M", "i", "l", "k", " ", "(", "L", "i", "t", "e", "r", "s", ")">>) @@ (Key.eggsCount :> <<"E", "g", "g", "s", " ", "C", "o", "u", "n", "t">>)
            @@ (Key.woolKg :> <<"W", "o", "o", "l", " ", "(", "K", "g", ")">>) @@ (Key.totalValue :> <<"T", "o", "t", "a", "l", " ", "V", "a", "l", "u", "e">>)
            @@ (Key.healthy :> <<"H", "e", "a", "l", "t", "h", "y", " ", "A", "n", "i", "m", "a", "l", "s">>)
            @@ (Key.attention :> <<"N", "e", "e", "d", "s", " ", "A", "t", "t", "e", "n", "t", "i", "o", "n">>) @@ (Key.sick :> <<"S", "i", "c", "k", " ", "A", "n", "i", "m", "a", "l", "s">>)
    IN  IF raw \in DOMAIN known THEN known[raw]
        ELSE IF raw = <<>> THEN <<"M", "e", "t", "r", "i", "c">>
        ELSE raw

\* the keys as they are given, whatever the category
orderedReportSummaryKeysAsGiven(category, summaryKeys) == summaryKeys

orderedReportSummaryKeys(category, summaryKeys) ==
    LET c == ToLower(TrimSpace(category))
        \* priorityByCategory[category], empty for every other category
        priority ==
            IF c = caseLabel.financial
            THEN <<Key.grossRevenue, Key.netRevenue, Key.profit, Key.totalExpenses,
                   Key.totalRevenue, Key.vatCollected>>
            ELSE IF c = caseLabel.sales
            THEN <<Key.grossRevenue, Key.netRevenue, Key.totalRevenue, Key.vatCollected,
                   Key.transactions>>
            ELSE IF c = caseLabel.resources
            THEN <<Key.totalValue, Key.milkLiters, Key.eggsCount, Key.woolKg>>
            ELSE IF c = caseLabel.health
            THEN <<Key.healthy, Key.attention, Key.sick>>
            ELSE <<>>
        \* the elements of seq not in seen, each once, at its first place
        RECURSIVE firstOnes(_, _)
        firstOnes(seq, seen) ==
            IF seq = <<>> THEN <<>>
            ELSE IF Head(seq) \in seen THEN firstOnes(Tail(seq), seen)
            ELSE <<Head(seq)>> \o firstOnes(Tail(seq), seen \cup {Head(seq)})
        given == {summaryKeys[i] : i \in 1..Len(summaryKeys)}
        first == firstOnes(SelectSeq(priority, LAMBDA k : k \in given), {})
    IN  IF priority = <<>> THEN summaryKeys
        ELSE first \o firstOnes(summaryKeys, {first[i] : i \in 1..Len(first)})

\* the widths with every schema filling the band of 496
highlightColumnWidthsFull(category, headerCount) ==
    LET c == ToLower(TrimSpace(category))
    IN  IF c = caseLabel.financial THEN <<26, 82, 62, 230, 96>>
        ELSE IF c = caseLabel.sales THEN <<24, 70, 118, 72, 134, 78>>
        ELSE IF c = caseLabel.resources THEN <<24, 70, 88, 64, 164, 86>>
        ELSE IF c = caseLabel.health THEN <<24, 66, 64, 88, 142, 112>>
        ELSE IF headerCount <= 2 THEN <<24, 472>>
        ELSE [i \in 1..headerCount |->
                 IF i = 1 THEN 24 + (472 % (headerCount - 1)) ELSE 472 \div (headerCount - 1)]

highlightColumnWidths(category, headerCount) ==
    LET c == ToLower(TrimSpace(category))
    IN  IF c = caseLabel.financial THEN <<26, 82, 62, 218, 96>>
        ELSE IF c = caseLabel.sales THEN <<24, 70, 118, 72, 134, 78>>
        ELSE IF c = caseLabel.resources THEN <<24, 70, 88, 64, 88, 86>>
        ELSE IF c = caseLabel.health THEN <<24, 66, 64, 88, 142, 112>>
        ELSE IF headerCount <= 2 THEN <<24, 472>>
        ELSE [i \in 1..headerCount |-> IF i = 1 THEN 24 ELSE 472 \div (headerCount - 1)]

\* the budget of a cell as the floor of every column
intMaxFirst(a, b) == a

intMax(a, b) == IF a > b THEN a ELSE b

\* the loop over metaLines from height y on; the loop over the wrapped lines
\* of one of them is left when y falls below 622
RECURSIVE metaBlock(_, _)
metaBlock(metaLines, y) ==
    LET RECURSIVE metaWrapped(_, _)
        metaWrapped(wrapped, yy) ==
            IF wrapped = <<>> THEN [out |-> <<>>, y |-> yy]
            ELSE LET line == <<"0", ".", "2", "0", " ", "0", ".", "2", "2", " ", "0", ".", "2", "0", " ", "r", "g", " ", "B", "T", " ", "/", "F", "1", " ", "1", "0", " ", "T", "f", " ", "5", "0", " ">> \o Itoa(yy) \o <<" ", "T", "d", " ", "(">>
                                 \o pdfEscape(Head(wrapped)) \o <<")", " ", "T", "j", " ", "E", "T", "\n">>
                 IN  IF yy - 14 < 622 THEN [out |-> <<line>>, y |-> yy - 14]
                     ELSE LET rest == metaWrapped(Tail(wrapped), yy - 14)
                          IN  [out |-> <<line>> \o rest.out, y |-> rest.y]
    IN  IF metaLines = <<>> THEN <<>>
        ELSE LET part == metaWrapped(wrapPDFText(Head(metaLines), 78), y)
             IN  part.out \o metaBlock(Tail(metaLines), part.y)

\* the cards of the first six summary lines, or the text that there is none
summaryCards(summaryLines, theme) ==
    LET cardW == 161
        cardX == <<50, 216, 382>>
        cardY == <<538, 500>>
        \* the card of summary line number cardIdx (from 0)
        card(line, cardIdx) ==
            LET metric == parseMetricLine(line)
                x == cardX[(cardIdx % 3) + 1]
                yy == cardY[(cardIdx \div 3) + 1]
                box == Itoa(x) \o <<" ">> \o Itoa(yy) \o <<" ">> \o Itoa(cardW)
            IN  <<<<"0", ".", "9", "7", " ", "0", ".", "9", "6", " ", "0", ".", "9", "3", " ", "r", "g", " ">>,
                  box \o <<" ", "3", "0", " ", "r", "e", " ", "f", "\n">>,
                  <<"0", ".", "8", "6", " ", "0", ".", "8", "4", " ", "0", ".", "7", "9", " ", "R", "G", " ", "0", ".", "8", " ", "w", " ">>,
                  box \o <<" ", "3", "0", " ", "r", "e", " ", "S", "\n">>,
                  <<"0", ".", "3", "0", " ", "0", ".", "3", "2", " ", "0", ".", "3", "0", " ", "r", "g", " ", "B", "T", " ", "/", "F", "1", " ", "8", " ", "T", "f", " ">>,
                  Itoa(x + 8) \o <<" ">> \o Itoa(yy + 18) \o <<" ", "T", "d", " ", "(">>
                      \o pdfEscape(shortenPDFText(metric.key, 26)) \o <<")", " ", "T", "j", " ", "E", "T", "\n">>,
                  themeText(theme, 90) \o <<" ", "r", "g", " ", "B", "T", " ", "/", "F", "2", " ", "1", "0", " ", "T", "f", " ">>,
                  Itoa(x + 8) \o <<" ">> \o Itoa(yy + 7) \o <<" ", "T", "d", " ", "(">>
                      \o pdfEscape(shortenPDFText(metric.value, 24)) \o <<")", " ", "T", "j", " ", "E", "T", "\n">>>>
    IN  IF summaryLines = <<>>
        THEN <<<<"0", ".", "3", "0", " ", "0", ".", "3", "2", " ", "0", ".", "3", "0", " ", "r", "g", " ", "B", "T", " ", "/", "F", "1", " ", "1", "0", " ", "T", "f", " ", "5", "2", " ", "5", "2", "6", " ", "T", "d", " ", "(", "N", "o", " ", "s", "u", "m", "m", "a", "r", "y", " ", "m", "e", "t", "r", "i", "c", "s", " ", "a", "v", "a", "i", "l", "a", "b", "l", "e", ".", ")", " ", "T", "j", " ", "E", "T", "\n">>>>
        ELSE Concat([i \in 1..Min({Len(summaryLines), 6}) |-> card(summaryLines[i], i - 1)])

\* the header cells and the rows of the table: the rows from height 390 down,
\* 22 apart, until one would start below 70
tableCells(recordHeaders, recordRows, columnWidths) ==
    LET \* the widths of the columns before column i, one without a width
        \* counting as missing
        RECURSIVE widthsBefore(_, _)
        widthsBefore(i, missing) ==
            IF i <= 1 THEN 0
            ELSE widthsBefore(i - 1, missing)
                     + (IF i - 1 <= Len(columnWidths) THEN columnWidths[i - 1] ELSE missing)
        header(i) ==
            <<"B", "T", " ", "/", "F", "2", " ", "8", " ", "T", "f", " ">> \o Itoa(58 + widthsBefore(i, 0)) \o <<" ">> \o Itoa(406 + 6)
                \o <<" ", "T", "d", " ", "(">> \o pdfEscape(shortenPDFText(recordHeaders[i], 22))
                \o <<")", " ", "T", "j", " ", "E", "T", "\n">>
        \* row number rowIdx (from 0) at height y
        tableRow(row, rowIdx, y) ==
            LET band == <<"5", "0", " ">> \o Itoa(y - 4) \o <<" ", "4", "9", "6", " ", "2", "2", " ", "r", "e", " ">>
                cell(i) ==
                    LET width == IF i <= Len(columnWidths) THEN columnWidths[i] ELSE 92
                    IN  <<<<"0", ".", "2", "4", " ", "0", ".", "2", "6", " ", "0", ".", "2", "4", " ", "r", "g", " ", "B", "T", " ", "/", "F", "1", " ", "7", " ", "T", "f", " ">>,
                          Itoa(58 + widthsBefore(i, 92)) \o <<" ">> \o Itoa(y + 5)
                              \o <<" ", "T", "d", " ", "(">>
                              \o pdfEscape(shortenPDFText(row[i],
                                                          intMax(6, (width - 10) \div 4)))
                              \o <<")", " ", "T", "j", " ", "E", "T", "\n">>>>
            IN  <<IF rowIdx % 2 = 0 THEN <<"0", ".", "9", "8", " ", "0", ".", "9", "7", " ", "0", ".", "9", "5", " ", "r", "g", " ">> ELSE <<"0", ".", "9", "6", " ", "0", ".", "9", "5", " ", "0", ".", "9", "2", " ", "r", "g", " ">>,
                  band \o <<"f", "\n">>,
                  <<"0", ".", "8", "8", " ", "0", ".", "8", "6", " ", "0", ".", "8", "2", " ", "R", "G", " ", "0", ".", "3", " ", "w", " ">>,
                  band \o <<"S", "\n">>>>
                \o Concat([i \in 1..Len(row) |-> cell(i)])
        drawn == {i \in 1..Len(recordRows) : 390 - 22 * (i - 1) >= 70}
        n == IF drawn = {} THEN 0 ELSE Max(drawn)
    IN  [i \in 1..Len(recordHeaders) |-> header(i)]
        \o Concat([i \in 1..n |-> tableRow(recordRows[i], i - 1, 390 - 22 * (i - 1))])

\* streamStr: the strings written to the content stream, in turn
pdfStream(report, summaryLines, recordHeaders, recordRows, overflowNote) ==
    LET theme == categoryTheme(report.category)
        headers == IF recordHeaders = <<>> THEN <<<<"#">>, <<"D", "e", "t", "a", "i", "l", "s">>>> ELSE recordHeaders
        columnWidths == highlightColumnWidths(report.category, Len(headers))
        metaLines == <<<<"T", "i", "t", "l", "e", ":", " ">> \o report.title,
                       <<"C", "a", "t", "e", "g", "o", "r", "y", ":", " ">> \o report.category,
                       <<"D", "a", "t", "e", " ", "R", "a", "n", "g", "e", ":", " ">> \o report.dateRange,
                       <<"G", "e", "n", "e", "r", "a", "t", "e", "d", " ", "O", "n", ":", " ">> \o report.generatedOn>>
    IN  <<<<"0", ".", "9", "5", " ", "0", ".", "9", "4", " ", "0", ".", "9", "1", " ", "r", "g", " ", "0", " ", "0", " ", "5", "9", "5", " ", "8", "4", "2", " ", "r", "e", " ", "f", "\n">>,
          <<"0", ".", "9", "1", " ", "0", ".", "9", "0", " ", "0", ".", "8", "6", " ", "r", "g", " ", "0", " ", "0", " ", "5", "9", "5", " ", "2", "2", "0", " ", "r", "e", " ", "f", "\n">>,
          themeText(theme, 100) \o <<" ", "r", "g", " ", "0", " ", "7", "5", "8", " ", "5", "9", "5", " ", "8", "4", " ", "r", "e", " ", "f", "\n">>,
          themeText(theme, 85) \o <<" ", "r", "g", " ", "0", " ", "7", "4", "2", " ", "5", "9", "5", " ", "1", "6", " ", "r", "e", " ", "f", "\n">>,
          <<"1", " ", "1", " ", "1", " ", "r", "g", " ", "B", "T", " ", "/", "F", "2", " ", "2", "4", " ", "T", "f", " ", "4", "8", " ", "8", "0", "6", " ", "T", "d", " ", "(", "F", "a", "r", "m", "P", "r", "o", " ", "R", "e", "p", "o", "r", "t", ")", " ", "T", "j", " ", "E", "T", "\n">>,
          <<"0", ".", "9", "2", " ", "0", ".", "9", "6", " ", "0", ".", "9", "4", " ", "r", "g", " ", "B", "T", " ", "/", "F", "1", " ", "1", "0", " ", "T", "f", " ", "4", "8", " ", "7", "8", "6", " ", "T", "d", " ", "(", "O", "p", "e", "r", "a", "t", "i", "o", "n", "a", "l", " ", "e", "x", "p", "o", "r", "t", " ", "s", "u", "m", "m", "a", "r", "y", ")", " ", "T", "j", " ", "E", "T", "\n">>,
          <<"1", " ", "1", " ", "1", " ", "r", "g", " ", "B", "T", " ", "/", "F", "1", " ", "1", "0", " ", "T", "f", " ", "4", "3", "5", " ", "8", "0", "6", " ", "T", "d", " ", "(">>,
          pdfEscape(<<"R", "e", "p", "o", "r", "t", " ", "#">> \o Itoa(report.id)),
          <<")", " ", "T", "j", " ", "E", "T", "\n">>,
          <<"0", ".", "9", "8", " ", "0", ".", "9", "8", " ", "0", ".", "9", "7", " ", "r", "g", " ", "3", "6", " ", "6", "1", "0", " ", "5", "2", "3", " ", "1", "3", "2", " ", "r", "e", " ", "f", "\n">>,
          <<"0", ".", "8", "6", " ", "0", ".", "8", "4", " ", "0", ".", "7", "9", " ", "R", "G", " ", "1", " ", "w", " ", "3", "6", " ", "6", "1", "0", " ", "5", "2", "3", " ", "1", "3", "2", " ", "r", "e", " ", "S", "\n">>,
          themeText(theme, 100) \o <<" ", "r", "g", " ", "3", "6", " ", "6", "1", "0", " ", "6", " ", "1", "3", "2", " ", "r", "e", " ", "f", "\n">>,
          <<"0", ".", "1", "8", " ", "0", ".", "2", "0", " ", "0", ".", "1", "8", " ", "r", "g", " ", "B", "T", " ", "/", "F", "2", " ", "1", "3", " ", "T", "f", " ", "5", "0", " ", "7", "2", "2", " ", "T", "d", " ", "(", "R", "e", "p", "o", "r", "t", " ", "S", "n", "a", "p", "s", "h", "o", "t", ")", " ", "T", "j", " ", "E", "T", "\n">>>>
        \o metaBlock(metaLines, 703)
        \o <<<<"0", ".", "9", "9", " ", "0", ".", "9", "8", " ", "0", ".", "9", "6", " ", "r", "g", " ", "3", "6", " ", "4", "6", "6", " ", "5", "2", "3", " ", "1", "2", "8", " ", "r", "e", " ", "f", "\n">>,
             <<"0", ".", "8", "6", " ", "0", ".", "8", "4", " ", "0", ".", "7", "9", " ", "R", "G", " ", "1", " ", "w", " ", "3", "6", " ", "4", "6", "6", " ", "5", "2", "3", " ", "1", "2", "8", " ", "r", "e", " ", "S", "\n">>,
             themeText(theme, 100) \o <<" ", "r", "g", " ", "3", "6", " ", "5", "8", "6", " ", "5", "2", "3", " ", "8", " ", "r", "e", " ", "f", "\n">>,
             <<"0", ".", "1", "8", " ", "0", ".", "2", "0", " ", "0", ".", "1", "8", " ", "r", "g", " ", "B", "T", " ", "/", "F", "2", " ", "1", "3", " ", "T", "f", " ", "5", "0", " ", "5", "7", "4", " ", "T", "d", " ", "(", "S", "u", "m", "m", "a", "r", "y", " ", "M", "e", "t", "r", "i", "c", "s", ")", " ", "T", "j", " ", "E", "T", "\n">>>>
        \o summaryCards(summaryLines, theme)
        \o <<<<"0", ".", "9", "9", " ", "0", ".", "9", "8", " ", "0", ".", "9", "6", " ", "r", "g", " ", "3", "6", " ", "4", "8", " ", "5", "2", "3", " ", "4", "0", "2", " ", "r", "e", " ", "f", "\n">>,
             <<"0", ".", "8", "6", " ", "0", ".", "8", "4", " ", "0", ".", "7", "9", " ", "R", "G", " ", "1", " ", "w", " ", "3", "6", " ", "4", "8", " ", "5", "2", "3", " ", "4", "0", "2", " ", "r", "e", " ", "S", "\n">>,
             themeText(theme, 100) \o <<" ", "r", "g", " ", "3", "6", " ", "4", "4", "2", " ", "5", "2", "3", " ", "8", " ", "r", "e", " ", "f", "\n">>,
             <<"0", ".", "1", "8", " ", "0", ".", "2", "0", " ", "0", ".", "1", "8", " ", "r", "g", " ", "B", "T", " ", "/", "F", "2", " ", "1", "3", " ", "T", "f", " ", "5", "0", " ", "4", "3", "0", " ", "T", "d", " ", "(", "R", "e", "c", "o", "r", "d", " ", "H", "i", "g", "h", "l", "i", "g", "h", "t", "s", ")", " ", "T", "j", " ", "E", "T", "\n">>,
             <<"0", ".", "9", "4", " ", "0", ".", "9", "4", " ", "0", ".", "9", "2", " ", "r", "g", " ", "5", "0", " ">> \o Itoa(406) \o <<" ", "4", "9", "6", " ", "2", "0", " ", "r", "e", " ", "f", "\n">>,
             <<"0", ".", "3", "0", " ", "0", ".", "3", "2", " ", "0", ".", "3", "0", " ", "r", "g", " ">>>>
        \o tableCells(headers, recordRows, columnWidths)
        \o (IF overflowNote # <<>>
            THEN <<<<"0", ".", "3", "0", " ", "0", ".", "3", "2", " ", "0", ".", "3", "0", " ", "r", "g", " ", "B", "T", " ", "/", "F", "1", " ", "8", " ", "T", "f", " ", "5", "8", " ", "6", "0", " ", "T", "d", " ", "(">>, pdfEscape(overflowNote),
                   <<")", " ", "T", "j", " ", "E", "T", "\n">>>>
            ELSE <<>>)
        \o <<themeText(theme, 90) \o <<" ", "r", "g", " ", "0", " ", "0", " ", "5", "9", "5", " ", "2", "8", " ", "r", "e", " ", "f", "\n">>,
             <<"0", ".", "9", "4", " ", "0", ".", "9", "6", " ", "0", ".", "9", "4", " ", "r", "g", " ", "B", "T", " ", "/", "F", "1", " ", "9", " ", "T", "f", " ", "4", "8", " ", "1", "1", " ", "T", "d", " ", "(", "G", "e", "n", "e", "r", "a", "t", "e", "d", " ", "b", "y", " ", "F", "a", "r", "m", "P", "r", "o", " ", "A", "n", "a", "l", "y", "t", "i", "c", "s", " ", "E", "n", "g", "i", "n", "e", ")", " ", "T", "j", " ", "E", "T", "\n">>,
             <<"0", ".", "9", "4", " ", "0", ".", "9", "6", " ", "0", ".", "9", "4", " ", "r", "g", " ", "B", "T", " ", "/", "F", "1", " ", "9", " ", "T", "f", " ", "4", "3", "0", " ", "1", "1", " ", "T", "d", " ", "(">>,
             pdfEscape(report.generatedOn),
             <<")", " ", "T", "j", " ", "E", "T", "\n">>>>

\* the number written after 'xref\n0 ' and after /Size, as the count of objects
xrefSizeOfObjects(objects) == Len(objects)

\* len(objects)+1: the number written after 'xref\n0 ' and after /Size
xrefSize(objects) == Len(objects) + 1

\* body: the header, the six objects around the content stream, the
\* cross-reference table and the trailer
pdfBody(streamStr) ==
    LET objects ==
            <<<<"<", "<", " ", "/", "T", "y", "p", "e", " ", "/", "C", "a", "t", "a", "l", "o", "g", " ", "/", "P", "a", "g", "e", "s", " ", "2", " ", "0", " ", "R", " ", ">", ">">>,
              <<"<", "<", " ", "/", "T", "y", "p", "e", " ", "/", "P", "a", "g", "e", "s", " ", "/", "K", "i", "d", "s", " ", "[", "3", " ", "0", " ", "R", "]", " ", "/", "C", "o", "u", "n", "t", " ", "1", " ", ">", ">">>,
              <<"<", "<", " ", "/", "T", "y", "p", "e", " ", "/", "P", "a", "g", "e", " ", "/", "P", "a", "r", "e", "n", "t", " ", "2", " ", "0", " ", "R", " ", "/", "M", "e", "d", "i", "a", "B", "o", "x", " ", "[", "0", " ", "0", " ", "5", "9", "5", " ", "8", "4", "2", "]", " ", "/", "C", "o", "n", "t", "e", "n", "t", "s", " ", "4", " ", "0", " ", "R", " ", "/", "R", "e", "s", "o", "u", "r", "c", "e", "s", " ", "<", "<", " ", "/", "F", "o", "n", "t", " ", "<", "<", " ", "/", "F", "1", " ", "5", " ", "0", " ", "R", " ", "/", "F", "2", " ", "6", " ", "0", " ", "R", " ", ">", ">", " ", ">", ">", " ", ">", ">">>,
              <<"<", "<", " ", "/", "L", "e", "n", "g", "t", "h", " ">> \o Itoa(Len(streamStr)) \o <<" ", ">", ">", "\n", "s", "t", "r", "e", "a", "m", "\n">> \o streamStr
                  \o <<"e", "n", "d", "s", "t", "r", "e", "a", "m">>,
              <<"<", "<", " ", "/", "T", "y", "p", "e", " ", "/", "F", "o", "n", "t", " ", "/", "S", "u", "b", "t", "y", "p", "e", " ", "/", "T", "y", "p", "e", "1", " ", "/", "B", "a", "s", "e", "F", "o", "n", "t", " ", "/", "H", "e", "l", "v", "e", "t", "i", "c", "a", " ", ">", ">">>,
              <<"<", "<", " ", "/", "T", "y", "p", "e", " ", "/", "F", "o", "n", "t", " ", "/", "S", "u", "b", "t", "y", "p", "e", " ", "/", "T", "y", "p", "e", "1", " ", "/", "B", "a", "s", "e", "F", "o", "n", "t", " ", "/", "H", "e", "l", "v", "e", "t", "i", "c", "a", "-", "B", "o", "l", "d", " ", ">", ">">>>>
        written == [i \in 1..Len(objects) |->
                      Itoa(i) \o <<" ", "0", " ", "o", "b", "j", "\n">> \o objects[i] \o <<"\n", "e", "n", "d", "o", "b", "j", "\n">>]
        header == <<"%", "P", "D", "F", "-", "1", ".", "4", "\n">>
        offsets == [i \in 1..Len(objects) |->
                      Len(header) + Len(Concat(SubSeq(written, 1, i - 1)))]
        xrefStart == Len(header) + Len(Concat(written))
        \* fmt.Sprintf("%010d", n)
        pad10(n) == [i \in 1..(10 - Len(digitsOf(n))) |-> "0"] \o digitsOf(n)
    IN  Concat(<<header>> \o written
               \o <<<<"x", "r", "e", "f", "\n", "0", " ">> \o Itoa(xrefSize(objects)) \o <<"\n">>,
                    <<"0", "0", "0", "0", "0", "0", "0", "0", "0", "0", " ", "6", "5", "5", "3", "5", " ", "f", " ", "\n">>>>
               \o [i \in 1..Len(objects) |-> pad10(offsets[i]) \o <<" ", "0", "0", "0", "0", "0", " ", "n", " ", "\n">>]
               \o <<<<"t", "r", "a", "i", "l", "e", "r", "\n">>,
                    <<"<", "<", " ", "/", "S", "i", "z", "e", " ">> \o Itoa(xrefSize(objects)) \o <<" ", "/", "R", "o", "o", "t", " ", "1", " ", "0", " ", "R", " ", ">", ">", "\n">>,
                    <<"s", "t", "a", "r", "t", "x", "r", "e", "f", "\n">>,
                    Itoa(xrefStart) \o <<"\n">>,
                    <<"%", "%", "E", "O", "F">>>>)

\* the body written after a line feed that the offsets do not count
buildStyledPDFShifted(report, summaryLines, recordHeaders, recordRows, overflowNote) ==
    <<"\n">> \o pdfBody(Concat(pdfStream(report, summaryLines, recordHeaders, recordRows,
                                         overflowNote)))

buildStyledPDF(report, summaryLines, recordHeaders, recordRows, overflowNote) ==
    pdfBody(Concat(pdfStream(report, summaryLines, recordHeaders, recordRows,
                             overflowNote)))

\* the summary lines in the iteration order of the map, neither sorted nor
\* put in the order of the category
summaryKeysUnordered(report, order) == mapRange(report.summary, order)

\* the summary keys sorted, then in the order of the category
summaryKeysOrdered(report, order) ==
    orderedReportSummaryKeys(report.category, sortStrings(mapRange(report.summary, order)))

\* writePDFReport(w, report): the bytes written; order is the iteration order
\* of the maps
writePDFReport(report, order) ==
    LET keys == summaryKeysOrdered(report, order)
        lines == [i \in 1..Len(keys) |->
                    prettyMetricLabel(keys[i]) \o <<":", " ">>
                        \o formatSummaryValue(keys[i], report.summary[keys[i]])]
        summaryLines == IF lines = <<>> THEN <<<<"N", "o", " ", "s", "u", "m", "m", "a", "r", "y", " ", "m", "e", "t", "r", "i", "c", "s", " ", "a", "v", "a", "i", "l", "a", "b", "l", "e", ".">>>> ELSE lines
        highlights == buildRecordHighlights(report, order)
    IN  buildStyledPDF(report, summaryLines, highlights.headers, highlights.rows,
                       highlights.overflow)

(***************************************************************************)
(* a download of a Sales report while other requests write table sales     *)
(*                                                                         *)
(* Every request runs in its own goroutine on the pool s.db, and           *)
(* buildReportContent sends its two statements outside a transaction, so   *)
(* a write of another request may be committed between them.  Every        *)
(* statement succeeds here: the failures of the queries are those of       *)
(* DownloadReport.                                                         *)
(***************************************************************************)
\* the stored reports of category Sales
SalesReportIds == {id \in DOMAIN ExistingReports :
                     normalizeReportType(ExistingReports[id].category) = Sales}

\* handleDownloadReport up to the first statement of buildReportContent on
\* table sales, and that statement: the aggregate query of the summary
QuerySalesSummary ==
    /\ download = NoDownload
    /\ response = NoResponse
    /\ \E id \in SalesReportIds, formatParam \in FormatParams :
          LET meta == parseReportMetadata(reports[id].description)
              w == reportWindow(meta.dateRange, clock, procZone)
              db == [sales |-> sales, expenses |-> expenses, animals |-> animals,
                     healthRecords |-> healthRecords, productionLogs |-> productionLogs]
          IN  download' = [id |-> id, format |-> formatParam,
                           window |-> w, summary |-> salesSummary(db, w, {})]
    /\ UNCHANGED <<codecVars, zoneVars, windowVars, storeVars, renderVars, textVars,
                   response, audit>>

\* the row query of buildReportContent, the loop over its rows and the answer
\* of handleDownloadReport
QuerySalesRows ==
    /\ download # NoDownload
    /\ response = NoResponse
    /\ LET id == download.id
           meta == parseReportMetadata(reports[id].description)
           db == [sales |-> sales, expenses |-> expenses, animals |-> animals,
                  healthRecords |-> healthRecords, productionLogs |-> productionLogs]
       IN  \E rows \in {Limit(o, ReportRowLimit) :
                          o \in Orders(salesRows(db, download.window, appZone))} :
              LET built == buildReportContent(id, reports[id].title, reports[id].category,
                               meta.dateRange, reports[id].last_generated,
                               requestedFormat(download.format, meta.format), db, clock,
                               [process |-> procZone, app |-> appZone], {},
                               [kind |-> "complete", rows |-> rows])
                  report == [built.content EXCEPT !.summary = download.summary]
              IN  /\ response' = [status |-> 200,
                                  contentType |-> contentTypeOf(report.format),
                                  filename |-> reportFilename(reports[id].title)
                                                 \o extensionOf(report.format),
                                  report |-> report]
                  /\ audit' = [id |-> id, failed |-> {}, rows |-> "complete",
                               sources |-> built.sources]
    /\ UNCHANGED <<codecVars, zoneVars, windowVars, storeVars, renderVars, textVars,
                   download>>

\* another request commits a write to table sales: handleCreateSale inserts a
\* row, handleDeleteSale deletes one
WriteSale ==
    /\ \E row \in SaleRows :
          sales' = IF row \in sales THEN sales \ {row} ELSE sales \cup {row}
    /\ UNCHANGED <<codecVars, zoneVars, windowVars, renderVars, textVars, handlerVars,
                   reports, reportSeq, expenses, animals, healthRecords, productionLogs>>

NextRace == QuerySalesSummary \/ QuerySalesRows \/ WriteSale \/ Answered

SpecRace == Init /\ [][NextRace]_vars

(***************************************************************************)
(* the text helpers on their own                                           *)
(***************************************************************************)
MaxTextLen == 12
MaxBudget == 13
MaxWhole == 3

Letters == <<"T", "h", "e", " ", "q", "u", "i", "c", "k", " ", "b", "r", "o", "w", "n", " ", "f", "o", "x", " ", "j", "u", "m", "p", "s", " ", "o", "v", "e", "r", " ", "t", "h", "e", " ", "l", "a", "z", "y", " ", "d", "o", "g", " ", "t", "o", "d", "a", "y", ".">>

\* the strings handed to shortenPDFText: runs of letters, bare and padded with
\* blanks, a 50-byte line and a string of two-byte runes
TextInputs ==
    {SubSeq(Letters, 1, n) : n \in 0..MaxTextLen}
    \cup {<<" ", " ">> \o SubSeq(Letters, 1, n) \o <<" ">> : n \in 0..MaxTextLen}
    \cup {SubSeq(Letters, 1, n) \o <<" ">> \o SubSeq(Letters, 1, n) : n \in 1..MaxTextLen}
    \cup {Letters, <<"C8", "BA", "C8", "BA", "C8", "BA">>}

Budgets == (-1)..MaxBudget

\* numeric values: whole amounts and amounts with a fraction of 1/1024ths
FractionInputs == {0, 1, 5, 6, 128, 512, 1019, 1023}
NumberInputs ==
    {Float64(w * FractionUnit + f) : w \in ((-2)..MaxWhole) \cup {150}, f \in FractionInputs}
    \cup {Int64(w) : w \in ((-2)..MaxWhole) \cup {150}}

SummaryKeyInputs ==
    {<<"g", "r", "o", "s", "s", "R", "e", "v", "e", "n", "u", "e">>, <<"n", "e", "t", "R", "e", "v", "e", "n", "u", "e">>, <<"p", "r", "o", "f", "i", "t">>, <<"t", "o", "t", "a", "l", "E", "x", "p", "e", "n", "s", "e", "s">>, <<"t", "o", "t", "a", "l", "R", "e", "v", "e", "n", "u", "e">>, <<"v", "a", "t", "C", "o", "l", "l", "e", "c", "t", "e", "d">>, <<"t", "o", "t", "a", "l", "V", "a", "l", "u", "e">>, <<" ", "P", "r", "o", "f", "i", "t", " ">>, <<"t", "r", "a", "n", "s", "a", "c", "t", "i", "o", "n", "s">>, <<"m", "i", "l", "k", "L", "i", "t", "e", "r", "s">>}

InitText ==
    /\ CodecIdle
    /\ ZonesIdle
    /\ WindowIdle
    /\ StoreIdle
    /\ RenderIdle
    /\ TextIdle

ShortenText ==
    /\ callArgs = NoCall
    /\ \E s \in TextInputs, max \in Budgets :
          /\ callArgs' = [fn |-> "shortenPDFText", s |-> s, max |-> max]
          /\ callResult' = shortenPDFText(s, max)
    /\ UNCHANGED <<codecVars, zoneVars, windowVars, storeVars, handlerVars, renderVars>>

FormatValue ==
    /\ callArgs = NoCall
    /\ \E key \in SummaryKeyInputs, value \in NumberInputs :
          /\ callArgs' = [fn |-> "formatSummaryValue", key |-> key, value |-> value]
          /\ callResult' = formatSummaryValue(key, value)
    /\ UNCHANGED <<codecVars, zoneVars, windowVars, storeVars, handlerVars, renderVars>>

\* the titles handed to reportFilename: title is free text of the generate
\* request, trimmed only (write_handlers.go:2286-2296)
TitleInputs ==
    {<<>>, <<" ", " ">>, <<"H", "e", "r", "d">>, <<" ", "H", "e", "r", "d", " ", "2", "0", "2", "4", " ">>,
     <<"Q", "1", " ", "\"", "S", "a", "l", "e", "s", "\"", "/", "R", "e", "p", "o", "r", "t">>,
     <<"H", "e", "r", "d", "\n", "2", "0", "2", "4">>,
     <<"M", "i", "l", "k", ",", " ", "e", "g", "g", "s">>, <<"a", " ", " ", "b">>, <<"-", "-", "-">>, <<"r", "e", "p", "o", "r", "t">>, <<"C8", "BA">>,
     <<"C8", "BA", "1">>, <<".", ".", "/", "x", ".", "p", "d", "f">>, <<"T", "a", "b", "\t", "S", "e", "p">>, <<"!", "?">>, <<"R", "\\", "D">>}
        \cup {SubSeq(Letters, 1, n) : n \in 1..MaxTextLen}

NameFile ==
    /\ callArgs = NoCall
    /\ \E title \in TitleInputs :
          /\ callArgs' = [fn |-> "reportFilename", title |-> title]
          /\ callResult' = reportFilename(title)
    /\ UNCHANGED <<codecVars, zoneVars, windowVars, storeVars, handlerVars, renderVars>>

MaxHeaders == 7

\* the categories handed to the helpers that switch on the category: the four
\* names as stored, padded and in capitals, and names outside the enum
CategoryInputs ==
    Categories \cup {<<" ", "s", "a", "l", "e", "s", " ">>, <<"H", "E", "A", "L", "T", "H">>, <<"C", "r", "o", "p", "s">>, <<>>}

ColumnWidths ==
    /\ callArgs = NoCall
    /\ \E category \in CategoryInputs, headerCount \in 0..MaxHeaders :
          /\ callArgs' = [fn |-> "highlightColumnWidths", category |-> category,
                          headerCount |-> headerCount]
          /\ callResult' = highlightColumnWidths(category, headerCount)
    /\ UNCHANGED <<codecVars, zoneVars, windowVars, storeVars, handlerVars, renderVars>>

\* the texts handed to wrapPDFText: sentences with blanks, tabs and line
\* feeds between the words, blank and empty texts, and words of 40, 79 and
\* 81 bytes
WrapInputs ==
    LET word == <<"Q", "u", "a", "r", "t", "e", "r", "l", "y", "-", "h", "e", "r", "d", "-", "h", "e", "a", "l", "t", "h", "-", "a", "n", "d", "-", "p", "r", "o", "d", "u", "c", "t", "i", "o", "n", "-", "l", "o", "g">>
        sentences == {Letters, Letters \o <<" ">> \o Letters,
                      Letters \o <<"\t", "\n">> \o Letters \o <<" ", " ">> \o Letters,
                      word \o <<" ">> \o word, SubSeq(word, 1, 38) \o <<" ">> \o word \o <<" ">> \o SubSeq(word, 1, 39),
                      word \o <<"-">> \o word, SubSeq(word, 1, 39) \o word,
                      <<"T", "i", "t", "l", "e", ":", " ">> \o word \o <<"/">> \o word \o <<" ">> \o word,
                      <<>>, <<" ", "\t">>}
    IN  sentences \cup {<<" ", " ">> \o text \o <<"\n">> : text \in sentences}
            \cup {SubSeq(Letters \o <<" ">> \o Letters, 1, n) : n \in 70..90}
            \cup TextInputs

WrapText ==
    /\ callArgs = NoCall
    /\ \E input \in WrapInputs :
          /\ callArgs' = [fn |-> "wrapPDFText", input |-> input, max |-> 78]
          /\ callResult' = wrapPDFText(input, 78)
    /\ UNCHANGED <<codecVars, zoneVars, windowVars, storeVars, handlerVars, renderVars>>

MaxShift == 1

\* the iteration orders of a map
MapOrders == [reverse : BOOLEAN, shift : 0..MaxShift]

\* keys a summary map may hold: keys of the four vocabularies and one that is
\* in no priority list
OrderedKeyInputs ==
    {Key.grossRevenue, Key.vatCollected, Key.transactions, Key.healthy, Key.attention,
     Key.totalValue, Key.eggsCount, <<"a", "v", "e", "r", "a", "g", "e", "P", "r", "i", "c", "e">>}

\* writePDFReport's way to the display order: the keys of the summary map in
\* the iteration order of the map, sorted, then handed to
\* orderedReportSummaryKeys
OrderKeys ==
    /\ callArgs = NoCall
    /\ \E category \in CategoryInputs, keys \in SUBSET OrderedKeyInputs, order \in MapOrders :
          LET summaryKeys == sortStrings(mapRange([k \in keys |-> Nil], order))
          IN  /\ callArgs' = [fn |-> "orderedReportSummaryKeys", category |-> category,
                              summaryKeys |-> summaryKeys]
              /\ callResult' = orderedReportSummaryKeys(category, summaryKeys)
    /\ UNCHANGED <<codecVars, zoneVars, windowVars, storeVars, handlerVars, renderVars>>

NextText ==
    ShortenText \/ FormatValue \/ NameFile \/ ColumnWidths \/ WrapText \/ OrderKeys

SpecText == InitText /\ [][NextText]_vars

(***************************************************************************)
(* the writers on their own                                                *)
(***************************************************************************)
MaxRecords == 15
MaxCalls == 2

\* t.Format("2006-01-02") as text
isoText(d) ==
    LET two(n) == <<Digits[(n \div 10) + 1], Digits[(n % 10) + 1]>>
    IN  two(d.y \div 100) \o two(d.y % 100) \o <<"-">> \o two(d.m) \o <<"-">> \o two(d.d)

\* an amount of whole + quarters/4
amountOf(whole, quarters) == Float64(whole * FractionUnit + quarters * (FractionUnit \div 4))

\* the i-th record buildReportContent appends for a category, two records a day
recordOf(category, i) ==
    LET recordDate(n) ==
            String(isoText(formatISODate(dateValue(Today - ((n - 1) \div 2)),
                                         RequestZones.app)))
    IN
    IF category = Health
    THEN (Key.date :> recordDate(i))
         @@ (Key.animalTagId :> String(<<"C", "O", "W", "-">> \o Itoa(i)))
         @@ (Key.action :> String(IF i % 2 = 0 THEN <<"V", "a", "c", "c", "i", "n", "a", "t", "i", "o", "n">> ELSE <<"T", "r", "e", "a", "t", "m", "e", "n", "t">>))
         @@ (Key.treatment :> String(IF i % 3 = 0 THEN <<>>
                                     ELSE IF i % 3 = 1 THEN <<"F", "o", "o", "t", " ", "a", "n", "d", " ", "m", "o", "u", "t", "h", " ", "b", "o", "o", "s", "t", "e", "r">>
                                     ELSE <<"F", "o", "o", "t", " ", "a", "n", "d", " ", "m", "o", "u", "t", "h", " ", "b", "o", "o", "s", "t", "e", "r">>
                                              \o <<",", " ", "s", "e", "c", "o", "n", "d", " ", "d", "o", "s", "e", " ", "g", "i", "v", "e", "n">>))
         @@ (Key.veterinarian :> String(<<"D", "r", " ">> \o Itoa(i)))
    ELSE IF category = Resources
    THEN (Key.date :> recordDate(i))
         @@ (Key.milkLiters :> amountOf(20 + i, i % 4))
         @@ (Key.eggsCount :> Int64(10 + i))
         @@ (Key.woolKg :> amountOf(0, i % 2))
         @@ (Key.totalValue :> amountOf(900 + i, 0))
    ELSE IF category = Sales
    THEN (Key.date :> recordDate(i))
         @@ (Key.product :> String(IF i % 2 = 0 THEN <<"E", "g", "g", "s">> ELSE <<"M", "i", "l", "k">>))
         @@ (Key.quantityValue :> amountOf(i, i % 4))
         @@ (Key.quantityUnit :> String(IF i % 2 = 0 THEN <<"t", "r", "a", "y">> ELSE <<"L">>))
         @@ (Key.buyer :> String(<<"D", "a", "i", "r", "y", " ", "C", "o", " ">> \o Itoa(i)))
         @@ (Key.buyerPIN :> String(IF i % 2 = 0 THEN <<>> ELSE <<"P", "0", "5", "1">>))
         @@ (Key.vatApplicable :> Bool(i % 2 = 1))
         @@ (Key.vatRate :> amountOf(IF i % 2 = 1 THEN 16 ELSE 0, 0))
         @@ (Key.vatAmount :> amountOf(IF i % 2 = 1 THEN 16 ELSE 0, 0))
         @@ (Key.netAmount :> amountOf(100 + i, 2))
         @@ (Key.pricePerUnit :> amountOf(10, 2))
         @@ (Key.totalAmount :> amountOf((IF i % 2 = 1 THEN 116 ELSE 100) + i, 2))
    ELSE (Key.date :> recordDate(i))
         @@ (Key.type :> String(IF i % 2 = 0 THEN <<"e", "x", "p", "e", "n", "s", "e">> ELSE <<"s", "a", "l", "e">>))
         @@ (Key.item :> String(IF i % 2 = 0 THEN <<"H", "a", "y">> ELSE <<"M", "i", "l", "k">>))
         @@ (Key.amount :> IF i % 2 = 0 THEN Float64(0 - (30 + i) * FractionUnit)
                           ELSE amountOf(100 + i, 2))

\* the summary buildReportContent fills for a category
summaryOf(category) ==
    IF category = Health
    THEN (Key.healthy :> Int64(7)) @@ (Key.attention :> Int64(0)) @@ (Key.sick :> Int64(2))
    ELSE IF category = Resources
    THEN (Key.milkLiters :> amountOf(38, 2)) @@ (Key.eggsCount :> Int64(22))
         @@ (Key.woolKg :> amountOf(1, 0)) @@ (Key.totalValue :> amountOf(1750, 0))
    ELSE IF category = Sales
    THEN (Key.totalRevenue :> amountOf(186, 2)) @@ (Key.grossRevenue :> amountOf(186, 2))
         @@ (Key.netRevenue :> amountOf(170, 2)) @@ (Key.vatCollected :> amountOf(16, 0))
         @@ (Key.transactions :> Int64(3))
    ELSE (Key.totalRevenue :> amountOf(186, 2)) @@ (Key.grossRevenue :> amountOf(186, 2))
         @@ (Key.netRevenue :> amountOf(170, 2)) @@ (Key.vatCollected :> amountOf(16, 0))
         @@ (Key.totalExpenses :> amountOf(70, 1))
         @@ (Key.profit :> Float64(170 * FractionUnit + 512 - (70 * FractionUnit + 256)))

\* a map with no entry
EmptyMap == [k \in {} |-> Nil]

\* the reportContent of report id with n records
reportOf(id, n) ==
    LET row == ExistingReports[id]
        category == normalizeReportType(row.category)
        meta == parseReportMetadata(row.description)
    IN  [id |-> id,
         title |-> row.title,
         category |-> category,
         dateRange |-> normalizeDateRange(meta.dateRange),
         format |-> normalizeReportFormat(meta.format),
         generatedOn |-> isoText(formatISODate(row.last_generated, RequestZones.app)),
         summary |-> summaryOf(category),
         records |-> [i \in 1..n |-> recordOf(category, i)]]

\* titles a generate request may carry: with a comma, with a line break
FreeTitles ==
    {<<"M", "i", "l", "k", ",", " ", "e", "g", "g", "s">>,
     <<"H", "e", "r", "d", "\n", "2", "0", "2", "4">>}

MaxTitleWords == 5

\* long titles: the title column is TEXT and the generate request sets no limit
\* (write_handlers.go:2289); k words of 40 bytes, of which no two fit in one
\* line of 78
LongTitles ==
    LET word == <<"Q", "u", "a", "r", "t", "e", "r", "l", "y", "-", "h", "e", "r", "d", "-", "h", "e", "a", "l", "t", "h", "-", "a", "n", "d", "-", "p", "r", "o", "d", "u", "c", "t", "i", "o", "n", "-", "l", "o", "g">>
        RECURSIVE words(_)
        words(k) == IF k = 1 THEN word ELSE words(k - 1) \o <<" ">> \o word
    IN  {words(k) : k \in 1..MaxTitleWords}

\* the reports handed to the writers: what buildReportContent returns for the
\* stored reports, and a reportContent whose summary and records are empty
ReportContents ==
    {reportOf(id, n) : id \in 1..Len(ExistingReports), n \in 0..MaxRecords}
        \cup {[reportOf(1, 0) EXCEPT !.summary = EmptyMap]}
        \cup {[reportOf(2, n) EXCEPT !.title = title] :
                  n \in 0..1, title \in FreeTitles \cup LongTitles}

InitRender ==
    /\ CodecIdle
    /\ ZonesIdle
    /\ WindowIdle
    /\ StoreIdle
    /\ TextIdle
    /\ content \in ReportContents
    /\ rendered = NotRendered

\* one call of buildRecordHighlights
HighlightRecords ==
    /\ rendered = NotRendered
    /\ \E order \in MapOrders :
          rendered' = [call |-> "buildRecordHighlights",
                       out |-> buildRecordHighlights(content, order)]
    /\ UNCHANGED <<codecVars, zoneVars, windowVars, storeVars, handlerVars, textVars, content>>

\* one call of writeCSVReport
WriteCSV ==
    /\ rendered = NotRendered
    /\ \E order \in MapOrders :
          rendered' = [call |-> "writeCSVReport", out |-> writeCSVReport(content, order)]
    /\ UNCHANGED <<codecVars, zoneVars, windowVars, storeVars, handlerVars, textVars, content>>

\* one call of writePDFReport, and a second one on the same report
WritePDF ==
    /\ IF rendered = NotRendered THEN TRUE
       ELSE rendered.call = "writePDFReport" /\ Len(rendered.out) < MaxCalls
    /\ \E order \in MapOrders :
          \E pdf \in {writePDFReport(content, order)} :
              rendered' = [call |-> "writePDFReport",
                           orders |-> IF rendered = NotRendered THEN <<order>>
                                      ELSE Append(rendered.orders, order),
                           out |-> IF rendered = NotRendered THEN <<pdf>>
                                   ELSE Append(rendered.out, pdf)]
    /\ UNCHANGED <<codecVars, zoneVars, windowVars, storeVars, handlerVars, textVars, content>>

NextRender == HighlightRecords \/ WriteCSV \/ WritePDF

SpecRender == InitRender /\ [][NextRender]_vars

(***************************************************************************)
(* claims on the codec (SpecCodec)                                          *)
(***************************************************************************)
\* C1: decoding the description that handleGenerateReport stores for a request
\* returns exactly the normalized date range and the normalized format of that
\* request, whether or not the request's strings are recognized.
C1_RoundTrip ==
    (request # NoRequest /\ decoded # NotDecoded)
        => decoded = Metadata(normalizeDateRange(request.dateRange),
                              normalizeReportFormat(request.format))

\* a request with a lower-case range and format has been stored and decoded
C1_Witness ==
    /\ request # NoRequest
    /\ decoded # NotDecoded
    /\ request.reportType = Sales
    /\ request.dateRange \notin DateRanges
    /\ request.format \notin Formats
    /\ decoded = Metadata(Last30Days, CSV)

\* a description with none of the markers parseReportMetadata looks for
HasMarker(d) ==
    LET desc == TrimSpace(d)
    IN  \/ Contains(ToLower(desc), PipeRangeMarker)
        \/ Contains(ToLower(desc), ForMarker)
        \/ (Contains(desc, <<"(">>) /\ HasSuffix(desc, <<")">>))

Unrecognized(v, enum) == \A e \in enum : ToLower(TrimSpace(v)) # ToLower(e)

\* C6: unrecognized input never errors and yields the default: the normalizers
\* return "Last 7 days", "JSON", "Financial" outside their enums, a description
\* without a marker decodes to ("Last 7 days", "JSON"), and every description
\* decodes to members of the two enums.
C6_DefaultsNeverError ==
    /\ request # NoRequest =>
          /\ Unrecognized(request.dateRange, DateRanges)
                => normalizeDateRange(request.dateRange) = Last7Days
          /\ Unrecognized(request.format, Formats)
                => normalizeReportFormat(request.format) = JSON
          /\ Unrecognized(request.reportType, Categories)
                => normalizeReportType(request.reportType) = Financial
    /\ decoded # NotDecoded =>
          /\ ~decoded.panic
          /\ decoded.dateRange \in DateRanges
          /\ decoded.format \in Formats
          /\ ~HasMarker(description) => decoded = Metadata(Last7Days, JSON)

\* C7: a stored description of the legacy form "<leading text> for r (f)"
\* decodes to (r, f), for every leading text.
C7_LegacyDecode ==
    (legacy # NoLegacy /\ decoded # NotDecoded)
        => decoded = Metadata(legacy.dateRange, legacy.format)

(***************************************************************************)
(* claims on the resolver (SpecWindow)                                      *)
(***************************************************************************)
\* C4: the window of a "This month" report starts on the first day of the
\* current month as seen in the server's configured zone (the location of
\* Server.now), and ends on the current date in that zone.
C4_ThisMonthInServerZone ==
    (window # NoWindow /\ normalizeDateRange(rangeArg) = ThisMonth) =>
        LET today == formatDay(serverNow(clock, appZone))
        IN  /\ formatDay(window.start) = [y |-> today.y, m |-> today.m, d |-> 1]
            /\ formatDay(window.end) = today

\* C5: for every instant now, the window ends at now; "Last 7 days" starts 6
\* calendar days before now, "Last 30 days" 29 days before, "This month" on
\* day 1 of now's month and year; an unrecognized range resolves like "Last 7
\* days"; start <= end.
C5_WindowSpans ==
    window # NoWindow =>
        LET now == timeIn(clock, procZone)
            r == normalizeDateRange(rangeArg)
            startDay == absDay(window.start.y, window.start.m, window.start.d)
            endDay == absDay(now.y, now.m, now.d)
        IN  /\ window.end = now
            /\ notAfter(window.start, window.end)
            /\ window.start.d \in 1..daysIn(window.start.y, window.start.m)
            /\ r = Last30Days => startDay = endDay - 29 /\ window.start.h = now.h
            /\ r = ThisMonth =>
                  /\ window.start.d = 1
                  /\ window.start.m = now.m
                  /\ window.start.y = now.y
            /\ r \notin {Last30Days, ThisMonth} =>
                  startDay = endDay - 6 /\ window.start.h = now.h
            /\ Unrecognized(rangeArg, DateRanges) =>
                  window = resolveDateRangeWindow(Last7Days, now)

\* an unrecognized range resolved on 2024-03-02: the window starts on 25 February
\* of a leap year
C5_Witness ==
    /\ window # NoWindow
    /\ Unrecognized(rangeArg, DateRanges)
    /\ formatDay(window.end) = [y |-> 2024, m |-> 3, d |-> 2]
    /\ formatDay(window.start) = [y |-> 2024, m |-> 2, d |-> 25]

(***************************************************************************)
(* claims on a download (Spec)                                             *)
(***************************************************************************)
\* a download has been answered with a report
Delivered == response # NoResponse /\ response.status = 200

\* the sales and the expenses dated inside the window of the delivered report
windowOfReport == reportWindow(response.report.dateRange, clock, procZone)
salesInWindow == {s \in sales : between(s.sale_date, windowOfReport)}
expensesInWindow == {e \in expenses : between(e.expense_date, windowOfReport)}

\* C2: when a data-source query of the aggregator fails (a summary aggregate
\* query, the row query, a row scan, or an error that ends the row iteration
\* early), the download is answered with an internal error and no report body.
C2_AnyFailureIsAnError ==
    (audit # NoAudit /\ (audit.failed # {} \/ audit.rows # "complete"))
        => (response.status = 500 /\ response.report = NoReport)

\* C3: the records of a delivered report are ordered by date descending, and
\* two records of the same date that come from the same table appear in
\* descending order of their row id.
C3_RecordsNewestFirst ==
    Delivered =>
        \A i, j \in 1..Len(response.report.records) :
            i < j =>
                LET a == response.report.records[i].date
                    b == response.report.records[j].date
                IN  /\ absDay(a.y, a.m, a.d) >= absDay(b.y, b.m, b.d)
                    /\ (a = b /\ audit.sources[i][1] = audit.sources[j][1])
                           => audit.sources[i][2] > audit.sources[j][2]

\* the rows of the store that match the query of the delivered report
matchingRows ==
    selectedRows(response.report.category,
                 [sales |-> sales, expenses |-> expenses, animals |-> animals,
                  healthRecords |-> healthRecords, productionLogs |-> productionLogs],
                 windowOfReport, appZone)

\* C11: for every category the number of records of a delivered report equals
\* min(number of matching rows in the window, 250).
C11_RecordCount ==
    Delivered =>
        Len(response.report.records) = Min({Cardinality(matchingRows), ReportRowLimit})

\* C8 as stated: the summary of a delivered report has exactly the keys
\* Financial (and any unrecognized category) {grossRevenue, netRevenue,
\* vatCollected, totalExpenses, profit}, Health {healthy, attention, sick},
\* Resources {milkLiters, eggsCount, woolKg, totalValue}, Sales {grossRevenue,
\* netRevenue, vatCollected, transactions}.
C8_SummaryKeysAsListed ==
    Delivered =>
        DOMAIN response.report.summary =
            IF response.report.category = Health THEN {"healthy", "attention", "sick"}
            ELSE IF response.report.category = Resources
                 THEN {"milkLiters", "eggsCount", "woolKg", "totalValue"}
            ELSE IF response.report.category = Sales
                 THEN {"grossRevenue", "netRevenue", "vatCollected", "transactions"}
            ELSE {"grossRevenue", "netRevenue", "vatCollected", "totalExpenses", "profit"}

\* C8: the summary of a delivered report has exactly the keys Financial (and
\* any unrecognized category) {totalRevenue, grossRevenue, netRevenue,
\* vatCollected, totalExpenses, profit}, Health {healthy, attention, sick},
\* Resources {milkLiters, eggsCount, woolKg, totalValue}, Sales {totalRevenue,
\* grossRevenue, netRevenue, vatCollected, transactions}, and totalRevenue
\* equals grossRevenue wherever it appears.
C8_SummaryKeys ==
    Delivered =>
        LET summary == response.report.summary
        IN  /\ DOMAIN summary =
                 IF response.report.category = Health THEN {"healthy", "attention", "sick"}
                 ELSE IF response.report.category = Resources
                      THEN {"milkLiters", "eggsCount", "woolKg", "totalValue"}
                 ELSE IF response.report.category = Sales
                      THEN {"totalRevenue", "grossRevenue", "netRevenue", "vatCollected",
                            "transactions"}
                 ELSE {"totalRevenue", "grossRevenue", "netRevenue", "vatCollected",
                       "totalExpenses", "profit"}
            /\ "totalRevenue" \in DOMAIN summary
                   => summary.totalRevenue = summary.grossRevenue

\* a report whose stored category is outside the enum has been delivered as a
\* Financial report over a window that holds a sale
C8_Witness ==
    /\ Delivered
    /\ reports[audit.id].category \notin Categories
    /\ response.report.category = Financial
    /\ response.report.summary.totalRevenue > 0
    /\ Cardinality(DOMAIN response.report.summary) = 6

\* C9: in a delivered Financial report profit = netRevenue - totalExpenses,
\* netRevenue is the sum of net_amount over the sales dated inside the window,
\* totalExpenses the sum of amount over the expenses dated inside the window
\* (both ends inclusive), and all three are 0 when the window holds neither.
C9_ProfitOfWindow ==
    (Delivered /\ response.report.category = Financial) =>
        LET summary == response.report.summary
        IN  /\ summary.profit = summary.netRevenue - summary.totalExpenses
            /\ summary.netRevenue = Sum([s \in salesInWindow |-> s.net_amount])
            /\ summary.totalExpenses = Sum([e \in expensesInWindow |-> e.amount])
            /\ (salesInWindow = {} /\ expensesInWindow = {})
                   => (summary.profit = 0 /\ summary.netRevenue = 0
                       /\ summary.totalExpenses = 0)

\* C10: in a delivered Financial report over a window of at most 250 sales
\* plus expenses there is exactly one record per sale, of type 'sale' with the
\* sale's total amount, exactly one record per expense, of type 'expense' with
\* the negated amount, and no record of another type.
C10_FinancialFeed ==
    (Delivered /\ response.report.category = Financial
        /\ Cardinality(salesInWindow) + Cardinality(expensesInWindow) <= ReportRowLimit) =>
        LET records == response.report.records
            of(table, id) == {i \in 1..Len(records) : audit.sources[i] = <<table, id>>}
        IN  /\ Len(records) = Cardinality(salesInWindow) + Cardinality(expensesInWindow)
            /\ \A s \in salesInWindow :
                   /\ Cardinality(of("sales", s.id)) = 1
                   /\ \A i \in of("sales", s.id) :
                          records[i].type = "sale" /\ records[i].amount = s.total_amount
            /\ \A e \in expensesInWindow :
                   /\ Cardinality(of("expenses", e.id)) = 1
                   /\ \A i \in of("expenses", e.id) :
                          records[i].type = "expense" /\ records[i].amount = 0 - e.amount
            /\ \A i \in 1..Len(records) : records[i].type \in {"sale", "expense"}

\* C16: the format of a delivered download is the normalized 'format' query
\* parameter when the parameter is not blank (JSON when it is not recognized),
\* and the format decoded from the stored description when it is absent or
\* blank; the answer carries the content type and the filename extension of
\* that format: text/csv and .csv, application/pdf and .pdf, application/json
\* and .json.
C16_FormatOfDownload ==
    Delivered =>
        LET param == download.format
            stored == parseReportMetadata(reports[download.id].description).format
            format == response.report.format
        IN  /\ (TrimSpace(param) = <<>>) => format = stored
            /\ (TrimSpace(param) # <<>> /\ Unrecognized(param, Formats)) => format = JSON
            /\ \A f \in Formats :
                   (ToUpper(TrimSpace(param)) = f) => format = f
            /\ format \in Formats
            /\ format = CSV => /\ response.contentType = "text/csv; charset=utf-8"
                               /\ HasSuffix(response.filename, <<".", "c", "s", "v">>)
            /\ format = PDF => /\ response.contentType = "application/pdf"
                               /\ HasSuffix(response.filename, <<".", "p", "d", "f">>)
            /\ format = JSON => /\ response.contentType = "application/json"
                                /\ HasSuffix(response.filename, <<".", "j", "s", "o", "n">>)

\* a report stored as PDF has been delivered as PDF to a request with a blank
\* format parameter
C16_Witness ==
    /\ Delivered
    /\ download.format = <<" ">>
    /\ parseReportMetadata(reports[download.id].description).format = PDF
    /\ response.report.format = PDF
    /\ response.contentType = "application/pdf"

\* C18: a download of a valid id is answered 404 exactly when no report with
\* that id exists, and then the aggregator has not run; a failure of the
\* lookup query for an existing id is not answered as 'not found'.
C18_NotFoundOnlyWhenAbsent ==
    (download # NoDownload /\ download.id > 0) =>
        /\ (response.status = 404) <=> (download.id \notin DOMAIN reports)
        /\ (response.status = 404) => (audit = NoAudit /\ response.report = NoReport)

(***************************************************************************)
(* claims on generate and download requests together (SpecLedger)          *)
(***************************************************************************)
\* C17: no request changes or removes a stored report row; a generate request
\* answered 201 adds exactly one row, under an id greater than every id drawn
\* before, and no other request adds a row; a download request writes to no
\* table (reports, sales, expenses, animals, health records, production logs).
C17_ReportsAppendOnly ==
    [][ /\ \A id \in DOMAIN reports :
               id \in DOMAIN reports' /\ reports'[id] = reports[id]
        /\ (response' # NoResponse /\ response'.status = 201)
               => /\ DOMAIN reports' = DOMAIN reports \cup {response'.report.id}
                  /\ response'.report.id \notin DOMAIN reports
                  /\ response'.report.id > reportSeq
                  /\ \A id \in DOMAIN reports : id <= reportSeq
        /\ ~(response' # NoResponse /\ response'.status = 201)
               => DOMAIN reports' = DOMAIN reports
        /\ download' # NoDownload
               => UNCHANGED <<reports, sales, expenses, animals, healthRecords,
                              productionLogs>>
      ]_vars

\* two reports have been generated and the second one downloaded
C17_Witness ==
    /\ Cardinality(DOMAIN reports) = 2
    /\ Delivered
    /\ download.id = 2
    /\ response.report.id = 2

(***************************************************************************)
(* claims on the text helpers (SpecText)                                   *)
(***************************************************************************)
\* C14: a numeric value under a currency-class key renders as 'KSh ' followed
\* by the amount; the amount has no decimal part exactly when the value is
\* integral, has exactly two decimal places otherwise, and never ends in '.00'.
C14_CurrencyText ==
    (callArgs # NoCall /\ callArgs.fn = "formatSummaryValue"
        /\ ToLower(TrimSpace(callArgs.key)) \in summaryLabels.currency) =>
        LET amount == SubSeq(callResult, 5, Len(callResult))
            integral == asFloat64(callArgs.value) % FractionUnit = 0
        IN  /\ HasPrefix(callResult, <<"K", "S", "h", " ">>)
            /\ integral <=> ~Contains(amount, <<".">>)
            /\ ~integral => (Len(amount) >= 4 /\ amount[Len(amount) - 2] = ".")
            /\ ~HasSuffix(amount, <<".", "0", "0">>)

\* C15 as stated: for every string and every budget max the text returned by
\* shortenPDFText is at most max long; a trimmed string longer than max gives
\* its first max-3 bytes followed by '...', of length exactly max, and a
\* trimmed string that is not longer is returned unchanged.
C15_ShortenAtMostBudget ==
    (callArgs # NoCall /\ callArgs.fn = "shortenPDFText") =>
        LET v == TrimSpace(callArgs.s)
            max == callArgs.max
        IN  /\ Len(callResult) <= max
            /\ Len(v) > max => /\ callResult = SubSeq(v, 1, max - 3) \o <<".", ".", ".">>
                               /\ Len(callResult) = max
            /\ Len(v) <= max => callResult = v

\* C15: for a budget max above 3 the text returned by shortenPDFText is at most
\* max bytes long: a trimmed string longer than max gives its first max-3 bytes
\* followed by '...', of length exactly max, and a trimmed string that is not
\* longer is returned unchanged; for a budget of 3 or less the trimmed string
\* is returned unchanged whatever its length.
C15_ShortenWithinBudget ==
    (callArgs # NoCall /\ callArgs.fn = "shortenPDFText") =>
        LET v == TrimSpace(callArgs.s)
            max == callArgs.max
        IN  /\ max > 3 =>
                /\ Len(callResult) <= max
                /\ Len(v) > max => /\ callResult = SubSeq(v, 1, max - 3) \o <<".", ".", ".">>
                                   /\ Len(callResult) = max
                /\ Len(v) <= max => callResult = v
            /\ max <= 3 => callResult = v

\* the 50-byte line has been cut to a budget of 10: 7 bytes and the dots
C15_Witness ==
    /\ callArgs # NoCall
    /\ callArgs.fn = "shortenPDFText"
    /\ Len(callArgs.s) = 50
    /\ callArgs.max = 10
    /\ callResult = <<"T", "h", "e", " ", "q", "u", "i", ".", ".", ".">>

(***************************************************************************)
(* claims on the writers (SpecRender)                                      *)
(***************************************************************************)
\* buildRecordHighlights has been called on the report
Highlighted == rendered # NotRendered /\ rendered.call = "buildRecordHighlights"

\* row i of the table is the row of record i: its number, the date of the
\* record, and in the last cell the last column of the record
RowOfRecord(row, i) ==
    LET r == content.records[i]
    IN  /\ row[1] = Itoa(i)
        /\ row[2] = Sprint(r[Key.date])
        /\ row[Len(row)] =
             IF content.category = Health THEN Sprint(r[Key.veterinarian])
             ELSE IF content.category = Resources THEN formatAnyCurrency(r[Key.totalValue])
             ELSE IF content.category = Sales THEN formatAnyCurrency(r[Key.totalAmount])
             ELSE formatAnyCurrency(r[Key.amount])

\* C12: buildRecordHighlights, for a report with n records: if n = 0 it returns
\* exactly one placeholder row containing 'No records available in this range.'
\* and an empty overflow note; if 1 <= n <= 12 it returns n rows, built from
\* records 1..n in order, and an empty overflow note; if n > 12 it returns
\* exactly 12 rows, built from the first 12 records in order, and the overflow
\* note '{n-12} additional records not shown.'.
C12_HighlightRows ==
    Highlighted =>
        LET n == Len(content.records)
            rows == rendered.out.rows
            note == rendered.out.overflow
        IN  /\ n = 0 => /\ Len(rows) = 1
                        /\ rows[1][Len(rows[1])] = <<"N", "o", " ", "r", "e", "c", "o", "r", "d", "s", " ", "a", "v", "a", "i", "l", "a", "b", "l", "e", " ", "i", "n", " ", "t", "h", "i", "s", " ", "r", "a", "n", "g", "e", ".">>
                        /\ note = <<>>
            /\ (1 <= n /\ n <= 12) =>
                   /\ Len(rows) = n
                   /\ \A i \in 1..n : RowOfRecord(rows[i], i)
                   /\ note = <<>>
            /\ n > 12 =>
                   /\ Len(rows) = 12
                   /\ \A i \in 1..12 : RowOfRecord(rows[i], i)
                   /\ note = Itoa(n - 12) \o <<" ", "a", "d", "d", "i", "t", "i", "o", "n", "a", "l", " ", "r", "e", "c", "o", "r", "d", "s", " ", "n", "o", "t", " ", "s", "h", "o", "w", "n", ".">>

\* the table of a report with 15 records: 12 rows and the note of 3 more
C12_Witness ==
    /\ Highlighted
    /\ Len(content.records) = 15
    /\ Len(rendered.out.rows) = 12
    /\ rendered.out.overflow = <<"3", " ", "a", "d", "d", "i", "t", "i", "o", "n", "a", "l", " ", "r", "e", "c", "o", "r", "d", "s", " ", "n", "o", "t", " ", "s", "h", "o", "w", "n", ".">>

\* writeCSVReport has been called on the report
WroteCSV == rendered # NotRendered /\ rendered.call = "writeCSVReport"

\* a sequence of keys in ascending alphabetical order
Alphabetical(keys) ==
    \A i, j \in 1..Len(keys) : i < j => lessString(ToLower(keys[i]), ToLower(keys[j]))

\* C19 as stated: the lines of a CSV export are the five key/value pairs
\* report_id, title, category, date_range, generated_on in that order; a blank
\* line; the line 'summary_key,summary_value' and one line per summary key in
\* ascending alphabetical key order; a blank line; then, with at least one
\* record, a header line with the keys of the first record in ascending
\* alphabetical order and one line per record, and with zero records the single
\* line 'records,none' and no header line.
C19_LinesAsListed ==
    WroteCSV =>
        LET lines == Split(rendered.out.body, "\n")
            keys == ascending(DOMAIN content.summary)
            k == Len(keys)
            n == Len(content.records)
        IN  /\ Len(lines) = 9 + k + (IF n = 0 THEN 0 ELSE n) + 1
            /\ lines[Len(lines)] = <<>>
            /\ HasPrefix(lines[1], <<"r", "e", "p", "o", "r", "t", "_", "i", "d", ",">>)
            /\ HasPrefix(lines[2], <<"t", "i", "t", "l", "e", ",">>)
            /\ HasPrefix(lines[3], <<"c", "a", "t", "e", "g", "o", "r", "y", ",">>)
            /\ HasPrefix(lines[4], <<"d", "a", "t", "e", "_", "r", "a", "n", "g", "e", ",">>)
            /\ HasPrefix(lines[5], <<"g", "e", "n", "e", "r", "a", "t", "e", "d", "_", "o", "n", ",">>)
            /\ lines[6] = <<>>
            /\ lines[7] = <<"s", "u", "m", "m", "a", "r", "y", "_", "k", "e", "y", ",", "s", "u", "m", "m", "a", "r", "y", "_", "v", "a", "l", "u", "e">>
            /\ Alphabetical(keys)
            /\ \A j \in 1..k : HasPrefix(lines[7 + j], keys[j] \o <<",">>)
            /\ lines[8 + k] = <<>>
            /\ n = 0 => lines[9 + k] = <<"r", "e", "c", "o", "r", "d", "s", ",", "n", "o", "n", "e">>
            /\ n > 0 => /\ Alphabetical(Split(lines[9 + k], ","))
                        /\ {Split(lines[9 + k], ",")[j] : j \in 1..Len(Split(lines[9 + k], ","))}
                               = DOMAIN content.records[1]

\* C19: the records of a CSV export (one per call of csv.Writer.Write) are the
\* five key/value pairs report_id, title, category, date_range, generated_on in
\* that order; an empty record; the record summary_key, summary_value and one
\* record per summary key in ascending alphabetical key order; an empty
\* record; then, with at least one record in the report, a header with the
\* keys of the first record in ascending alphabetical order and one record per
\* report record in list order, and with none the single record records, none
\* and no header.  Each record is written as one line, fields between commas,
\* unless a field needs quotes.
C19_RecordsAsListed ==
    WroteCSV =>
        LET w == rendered.out.records
            lines == Split(rendered.out.body, "\n")
            k == Cardinality(DOMAIN content.summary)
            n == Len(content.records)
        IN  /\ Len(w) = 9 + k + n
            /\ w[1] = <<<<"r", "e", "p", "o", "r", "t", "_", "i", "d">>, Itoa(content.id)>>
            /\ w[2] = <<<<"t", "i", "t", "l", "e">>, content.title>>
            /\ w[3] = <<<<"c", "a", "t", "e", "g", "o", "r", "y">>, content.category>>
            /\ w[4] = <<<<"d", "a", "t", "e", "_", "r", "a", "n", "g", "e">>, content.dateRange>>
            /\ w[5] = <<<<"g", "e", "n", "e", "r", "a", "t", "e", "d", "_", "o", "n">>, content.generatedOn>>
            /\ w[6] = <<>>
            /\ w[7] = <<<<"s", "u", "m", "m", "a", "r", "y", "_", "k", "e", "y">>, <<"s", "u", "m", "m", "a", "r", "y", "_", "v", "a", "l", "u", "e">>>>
            /\ \A j \in 1..k : /\ Len(w[7 + j]) = 2
                               /\ w[7 + j][1] \in DOMAIN content.summary
                               /\ w[7 + j][2] = Sprint(content.summary[w[7 + j][1]])
            /\ Alphabetical([j \in 1..k |-> w[7 + j][1]])
            /\ w[8 + k] = <<>>
            /\ n = 0 => w[9 + k] = <<<<"r", "e", "c", "o", "r", "d", "s">>, <<"n", "o", "n", "e">>>>
            /\ n > 0 =>
                 LET header == w[9 + k]
                 IN  /\ Alphabetical(header)
                     /\ {header[j] : j \in 1..Len(header)} = DOMAIN content.records[1]
                     /\ \A i \in 1..n :
                          /\ Len(w[9 + k + i]) = Len(header)
                          /\ \A j \in 1..Len(header) :
                               w[9 + k + i][j] = Sprint(content.records[i][header[j]])
            /\ (\A i \in 1..Len(w) : \A j \in 1..Len(w[i]) : ~fieldNeedsQuotes(w[i][j]))
                   => /\ Len(lines) = Len(w) + 1
                      /\ \A i \in 1..Len(w) : lines[i] = Join(w[i], <<",">>)

\* the export of a report with a record whose title holds a line break: the
\* title record spans two lines
C19_Witness ==
    /\ WroteCSV
    /\ \E i \in 1..Len(content.title) : content.title[i] = "\n"
    /\ Len(content.records) = 1
    /\ Len(rendered.out.records) = 9 + Cardinality(DOMAIN content.summary) + 1
    /\ Len(Split(rendered.out.body, "\n")) = Len(rendered.out.records) + 2

\* writePDFReport has been called on the report
WrotePDF == rendered # NotRendered /\ rendered.call = "writePDFReport"

\* the text between '/Size ' and the next space in the last bytes of a PDF,
\* after the line 'trailer'
trailerSizeText(pdf) ==
    LET tail == SubSeq(pdf, Max({1, Len(pdf) - 99}), Len(pdf))
        trailer == Slice(tail, LastIndex(tail, <<"t", "r", "a", "i", "l", "e", "r", "\n">>), Len(tail))
        rest == Slice(trailer, Index(trailer, <<"/", "S", "i", "z", "e", " ">>) + 6, Len(trailer))
    IN  Slice(rest, 0, Index(rest, <<" ">>))

\* C13 as stated: the PDF byte stream of every report (including one with no
\* summary keys and no records) starts with '%PDF-1.4' followed by a newline,
\* ends with '%%EOF' with nothing after it, and the /Size value in its trailer
\* equals exactly 6.
C13_TrailerSizeSix ==
    WrotePDF =>
        \A i \in 1..Len(rendered.out) :
            /\ HasPrefix(rendered.out[i], <<"%", "P", "D", "F", "-", "1", ".", "4", "\n">>)
            /\ HasSuffix(rendered.out[i], <<"%", "%", "E", "O", "F">>)
            /\ trailerSizeText(rendered.out[i]) = <<"6">>

\* C13: the PDF byte stream of every report (including one with no summary
\* keys and no records) starts with '%PDF-1.4' followed by a newline, ends with
\* '%%EOF' with nothing after it, and the /Size value in its trailer equals
\* exactly 7: the six objects and the free entry 0 of the cross-reference table.
C13_TrailerSizeSeven ==
    WrotePDF =>
        \A i \in 1..Len(rendered.out) :
            /\ HasPrefix(rendered.out[i], <<"%", "P", "D", "F", "-", "1", ".", "4", "\n">>)
            /\ HasSuffix(rendered.out[i], <<"%", "%", "E", "O", "F">>)
            /\ trailerSizeText(rendered.out[i]) = <<"7">>

\* the PDF of the report with no summary keys and no records has been written
C13_Witness ==
    /\ WrotePDF
    /\ content.summary = EmptyMap
    /\ content.records = <<>>
    /\ HasSuffix(rendered.out[1], <<"<", "<", " ", "/", "S", "i", "z", "e", " ", "7", " ", "/", "R", "o", "o", "t", " ", "1", " ", "0", " ", "R", " ", ">", ">", "\n", "s", "t", "a", "r", "t", "x", "r", "e", "f", "\n">>
                                      \o Itoa(Index(rendered.out[1], <<"x", "r", "e", "f", "\n", "0", " ", "7", "\n">>))
                                      \o <<"\n", "%", "%", "E", "O", "F">>)

\* C20: two calls of writePDFReport with equal report contents produce
\* byte-identical PDF output, whatever the iteration order of the summary map
\* and of the record maps.
C20_SamePDF ==
    (WrotePDF /\ Len(rendered.out) >= 2) =>
        \A i, j \in 1..Len(rendered.out) : rendered.out[i] = rendered.out[j]

\* a report with six summary keys and records has been written twice, the
\* maps iterated in opposite directions
C20_Witness ==
    /\ WrotePDF
    /\ Len(rendered.out) = 2
    /\ rendered.orders[1].reverse # rendered.orders[2].reverse
    /\ Cardinality(DOMAIN content.summary) = 6
    /\ Len(content.records) > 12
    /\ rendered.out[1] = rendered.out[2]

(***************************************************************************)
(* C21: the download filename                                              *)
(***************************************************************************)
FilenameBytes ==
    {LowerAlpha[i] : i \in 1..26} \cup {Digits[i] : i \in 1..10} \cup {"-"}

\* C21: for every title reportFilename returns a non-empty string of the
\* bytes a-z, 0-9 and '-' only; it is the trimmed, lower-cased title with each
\* space replaced by '-' and every other byte outside that set removed, it is
\* 'report' when nothing remains, and reportFilename of the result is the
\* result.
C21_FilenameSafe ==
    (callArgs # NoCall /\ callArgs.fn = "reportFilename") =>
        LET lowered == ToLower(TrimSpace(callArgs.title))
            kept == SelectSeq(lowered, LAMBDA c : c = " " \/ c \in FilenameBytes)
            dashed == [i \in 1..Len(kept) |-> IF kept[i] = " " THEN "-" ELSE kept[i]]
        IN  /\ callResult # <<>>
            /\ \A i \in 1..Len(callResult) : callResult[i] \in FilenameBytes
            /\ callResult = (IF dashed = <<>> THEN <<"r", "e", "p", "o", "r", "t">> ELSE dashed)
            /\ reportFilename(callResult) = callResult

\* a title with capitals, a blank, quotes and a slash has been named
C21_Witness ==
    /\ callArgs # NoCall
    /\ callArgs.fn = "reportFilename"
    /\ callArgs.title = <<"Q", "1", " ", "\"", "S", "a", "l", "e", "s", "\"", "/", "R", "e", "p", "o", "r", "t">>
    /\ callResult = <<"q", "1", "-", "s", "a", "l", "e", "s", "r", "e", "p", "o", "r", "t">>

\* a title of which nothing remains has been named 'report'
C21_WitnessEmpty ==
    /\ callArgs # NoCall
    /\ callArgs.fn = "reportFilename"
    /\ callArgs.title = <<"!", "?">>
    /\ callResult = <<"r", "e", "p", "o", "r", "t">>

(***************************************************************************)
(* C22: the column widths of the record table                              *)
(***************************************************************************)
\* the width of the table band buildStyledPDF draws ("50 %d 496 20 re f")
BandWidth == 496

WidthsCalled == callArgs # NoCall /\ callArgs.fn = "highlightColumnWidths"

SumOfWidths(widths) == Sum([i \in 1..Len(widths) |-> widths[i]])

\* C22 as stated: for each of the four categories, and for the generic schema
\* of an unknown category, the column widths returned by
\* highlightColumnWidths sum to the 496 units of the table band.
C22_WidthsFillBand ==
    WidthsCalled => SumOfWidths(callResult) = BandWidth

\* C22: the column widths returned by highlightColumnWidths never sum to more
\* than the 496 units of the table band: they sum to 496 for Sales and Health,
\* to 484 for Financial, to 420 for Resources, to 496 for the generic schema
\* of up to two headers, and to 24 + (n-1) * (472 div (n-1)) for the generic
\* schema of n > 2 headers.
C22_WidthsWithinBand ==
    WidthsCalled =>
        LET c == ToLower(TrimSpace(callArgs.category))
            n == callArgs.headerCount
            total == SumOfWidths(callResult)
        IN  /\ total <= BandWidth
            /\ c \in {<<"s", "a", "l", "e", "s">>, <<"h", "e", "a", "l", "t", "h">>} => total = 496
            /\ c = <<"f", "i", "n", "a", "n", "c", "i", "a", "l">> => total = 484
            /\ c = <<"r", "e", "s", "o", "u", "r", "c", "e", "s">> => total = 420
            /\ c \notin {caseLabel.sales, caseLabel.health, caseLabel.financial,
                        caseLabel.resources} =>
                  /\ n <= 2 => total = 496
                  /\ n > 2 => /\ Len(callResult) = n
                              /\ total = 24 + (n - 1) * (472 \div (n - 1))

\* the widths of Resources have been asked for: they sum to 420
C22_Witness ==
    /\ WidthsCalled
    /\ callArgs.category = Resources
    /\ SumOfWidths(callResult) = 420

(***************************************************************************)
(* reading a written PDF: its lines and the numbers in them                *)
(***************************************************************************)
\* the lines of a PDF, each without its line feed
pdfLines(pdf) ==
    LET feeds == SelectSeq([i \in 1..Len(pdf) |-> i], LAMBDA i : pdf[i] = "\n")
    IN  [k \in 1..Len(feeds) |->
            SubSeq(pdf, IF k = 1 THEN 1 ELSE feeds[k - 1] + 1, feeds[k] - 1)]

\* the lines of a PDF that begin with prefix, in turn
linesWith(pdf, prefix) == SelectSeq(pdfLines(pdf), LAMBDA line : HasPrefix(line, prefix))

\* the text a line shows: what stands between ' Td (' and the closing ') Tj ET'
shownText(line) ==
    Slice(line, Index(line, <<" ", "T", "d", " ", "(">>) + 5, Len(line) - 7)

\* the bytes of pdf from position at up to the next byte stop
wordAt(pdf, at, stop) ==
    LET end == CHOOSE j \in at..Len(pdf) :
                   pdf[j] = stop /\ \A k \in at..(j - 1) : pdf[k] # stop
    IN  SubSeq(pdf, at, end - 1)

\* the value of a decimal numeral
numberOf(digits) ==
    LET valueOf(c) == (CHOOSE i \in 1..10 : Digits[i] = c) - 1
        RECURSIVE power(_)
        power(k) == IF k = 0 THEN 1 ELSE 10 * power(k - 1)
    IN  Sum([i \in 1..Len(digits) |-> valueOf(digits[i]) * power(Len(digits) - i)])

(***************************************************************************)
(* C23: the metadata lines of the Report Snapshot panel                    *)
(***************************************************************************)
\* what every metadata line begins with (reports_helpers.go:363)
MetaLinePrefix == <<"0", ".", "2", "0", " ", "0", ".", "2", "2", " ", "0", ".", "2", "0", " ", "r", "g", " ", "B", "T", " ", "/", "F", "1", " ", "1", "0", " ", "T", "f", " ", "5", "0", " ">>

\* the heights at which the metadata lines of a PDF are drawn
metaHeights(pdf) ==
    LET lines == linesWith(pdf, MetaLinePrefix)
    IN  {numberOf(wordAt(lines[k], Len(MetaLinePrefix) + 1, " ")) : k \in 1..Len(lines)}

\* C23: for every title length every metadata line of the Report Snapshot
\* panel (Title, Category, Date Range, Generated On and their wrapped
\* continuations) is drawn at a height y of at least 622, inside the panel
\* whose bottom edge is at y = 610.
C23_MetadataInsidePanel ==
    WrotePDF =>
        \A i \in 1..Len(rendered.out) :
            \A y \in metaHeights(rendered.out[i]) : y >= 622

(***************************************************************************)
(* C24: the cells of the record table                                      *)
(***************************************************************************)
\* what every data cell of the table begins with (reports_helpers.go:443)
CellLinePrefix == <<"0", ".", "2", "4", " ", "0", ".", "2", "6", " ", "0", ".", "2", "4", " ", "r", "g", " ", "B", "T", " ", "/", "F", "1", " ", "7", " ", "T", "f", " ">>

\* the ellipsis rule: a text longer than the budget is shown as its first
\* budget-3 bytes and three dots
ellipsis(text, budget) ==
    LET v == TrimSpace(text)
    IN  IF Len(v) > budget THEN SubSeq(v, 1, budget - 3) \o <<".", ".", ".">> ELSE v

\* the data cells of call i are those of the highlight rows, row by row, each
\* cut by the ellipsis rule to the budget of its column width
cellsCutTo(i, budgetOf(_)) ==
    LET pdf == rendered.out[i]
        highlights == buildRecordHighlights(content, rendered.orders[i])
        widths == highlightColumnWidths(content.category, Len(highlights.headers))
        columns == Len(highlights.rows[1])
        shown == linesWith(pdf, CellLinePrefix)
    IN  /\ \A r \in 1..Len(highlights.rows) : Len(highlights.rows[r]) = columns
        /\ columns <= Len(widths)
        /\ Len(shown) = Len(highlights.rows) * columns
        /\ \A r \in 1..Len(highlights.rows), c \in 1..columns :
              shownText(shown[(r - 1) * columns + c])
                  = pdfEscape(ellipsis(highlights.rows[r][c], budgetOf(widths[c])))

\* C24 as stated: each data cell of the PDF record table is cut to a budget of
\* max(6, width/4) bytes, width being the width of the cell's column, by the
\* ellipsis rule.
C24_CellBudgetQuarterWidth ==
    WrotePDF =>
        \A i \in 1..Len(rendered.out) :
            cellsCutTo(i, LAMBDA width : IF width \div 4 > 6 THEN width \div 4 ELSE 6)

\* C24: each data cell of the PDF record table is cut to a budget of
\* max(6, (width-10)/4) bytes, width being the width of the cell's column and
\* the division an integer division, by the ellipsis rule.
C24_CellBudgetOfInnerWidth ==
    WrotePDF =>
        \A i \in 1..Len(rendered.out) :
            cellsCutTo(i, LAMBDA width :
                              IF (width - 10) \div 4 > 6 THEN (width - 10) \div 4 ELSE 6)

\* a Health report with records has been written, and one of its cells shows
\* an ellipsis
C24_Witness ==
    /\ WrotePDF
    /\ content.category = Health
    /\ Len(content.records) > 0
    /\ LET shown == linesWith(rendered.out[1], CellLinePrefix)
       IN  \E k \in 1..Len(shown) : HasSuffix(shownText(shown[k]), <<".", ".", ".">>)

(***************************************************************************)
(* C25: the lines of wrapPDFText                                           *)
(***************************************************************************)
Wrapped == callArgs # NoCall /\ callArgs.fn = "wrapPDFText"

\* a text with every run of white space made one blank, none before the first
\* word and none after the last
collapsed(text) ==
    LET t == TrimSpace(text)
        \* the bytes of the words and the last byte of every run of white space
        kept == SelectSeq([i \in 1..Len(t) |-> i],
                          LAMBDA i : t[i] \notin WhiteSpace \/ t[i + 1] \notin WhiteSpace)
    IN  [k \in 1..Len(kept) |-> IF t[kept[k]] \in WhiteSpace THEN " " ELSE t[kept[k]]]

\* C25: every line returned by wrapPDFText(input, 78) is at most 78 bytes
\* long, for every input including one with a single word longer than 78, and
\* the lines joined by single blanks are the input with each run of white
\* space collapsed to one blank.
C25_LinesWithinWidth ==
    Wrapped =>
        /\ \A i \in 1..Len(callResult) : Len(callResult[i]) <= callArgs.max
        /\ Join(callResult, <<" ">>) = collapsed(callArgs.input)

(***************************************************************************)
(* C26: the cross-reference table                                          *)
(***************************************************************************)
\* the text p stands in pdf at byte offset off (offsets count from 0)
standsAt(pdf, off, p) ==
    off >= 0 /\ off + Len(p) <= Len(pdf) /\ SubSeq(pdf, off + 1, off + Len(p)) = p

\* the cross-reference table of a PDF as its last thirteen lines show it:
\* where 'xref' begins, the offsets of the six entries in use, the number
\* after 'startxref'
xrefOf(pdf) ==
    LET lines == pdfLines(pdf)
        n == Len(lines)
        tail == SubSeq(lines, n - 12, n)
    IN  [lines |-> tail,
         begins |-> Len(pdf) - 5 - Sum([k \in 1..13 |-> Len(tail[k]) + 1]),
         offsets |-> [i \in 1..6 |-> numberOf(SubSeq(tail[3 + i], 1, 10))],
         startxref |-> numberOf(tail[13])]

\* the cross-reference table of pdf is exact
xrefExact(pdf) ==
    LET xref == xrefOf(pdf)
        length == <<"4", " ", "0", " ", "o", "b", "j", "\n", "<", "<", " ", "/", "L", "e", "n", "g", "t", "h", " ">>
        digits == wordAt(pdf, xref.offsets[4] + Len(length) + 1, " ")
        stream == xref.offsets[4] + Len(length) + Len(digits) + Len(<<" ", ">", ">", "\n", "s", "t", "r", "e", "a", "m", "\n">>)
    IN  /\ HasSuffix(pdf, <<"%", "%", "E", "O", "F">>)
        /\ xref.lines[1] = <<"x", "r", "e", "f">>
        /\ xref.lines[2] = <<"0", " ", "7">>
        /\ xref.lines[3] = <<"0", "0", "0", "0", "0", "0", "0", "0", "0", "0", " ", "6", "5", "5", "3", "5", " ", "f", " ">>
        /\ \A i \in 1..6 :
              /\ Len(xref.lines[3 + i]) = 19
              /\ SubSeq(xref.lines[3 + i], 11, 19) = <<" ", "0", "0", "0", "0", "0", " ", "n", " ">>
              /\ standsAt(pdf, xref.offsets[i], Itoa(i) \o <<" ", "0", " ", "o", "b", "j", "\n">>)
              /\ pdf[xref.offsets[i]] = "\n"
        /\ xref.lines[10] = <<"t", "r", "a", "i", "l", "e", "r">>
        /\ xref.lines[11] = <<"<", "<", " ", "/", "S", "i", "z", "e", " ", "7", " ", "/", "R", "o", "o", "t", " ", "1", " ", "0", " ", "R", " ", ">", ">">>
        /\ xref.lines[12] = <<"s", "t", "a", "r", "t", "x", "r", "e", "f">>
        /\ xref.lines[13] = Itoa(xref.startxref)
        /\ xref.startxref = xref.begins
        /\ standsAt(pdf, xref.startxref, <<"x", "r", "e", "f", "\n">>)
        /\ standsAt(pdf, xref.offsets[1], <<"1", " ", "0", " ", "o", "b", "j", "\n", "<", "<", " ", "/", "T", "y", "p", "e", " ", "/", "C", "a", "t", "a", "l", "o", "g", " ">>)
        /\ standsAt(pdf, stream + numberOf(digits), <<"e", "n", "d", "s", "t", "r", "e", "a", "m", "\n", "e", "n", "d", "o", "b", "j", "\n", "5", " ", "0", " ", "o", "b", "j", "\n">>)
        /\ xref.offsets[5] = stream + numberOf(digits) + Len(<<"e", "n", "d", "s", "t", "r", "e", "a", "m", "\n", "e", "n", "d", "o", "b", "j", "\n">>)

\* C26: the cross-reference table of the PDF is byte-exact for every report:
\* it declares 7 entries from 0, entry 0 is '0000000000 65535 f', entry i
\* (1 <= i <= 6) holds the 10-digit zero-padded byte offset at which 'i 0 obj'
\* begins, the number after 'startxref' is the byte offset at which 'xref'
\* begins, /Root is object 1, the Catalog, and the /Length of the content
\* stream object is the byte length of the content stream.
C26_XrefExact ==
    WrotePDF => \A i \in 1..Len(rendered.out) : xrefExact(rendered.out[i])

\* the PDF of a Sales report with more records than the table shows has been
\* written: its content stream is longer than 7000 bytes and the fifth object
\* begins after it
C26_Witness ==
    /\ WrotePDF
    /\ content.category = Sales
    /\ Len(content.records) = MaxRecords
    /\ xrefOf(rendered.out[1]).offsets[4] = 251
    /\ xrefOf(rendered.out[1]).offsets[5] > 7000
    /\ xrefOf(rendered.out[1]).startxref = xrefOf(rendered.out[1]).offsets[6] + 75

(***************************************************************************)
(* C27: the display order of the summary keys                              *)
(***************************************************************************)
KeysOrdered == callArgs # NoCall /\ callArgs.fn = "orderedReportSummaryKeys"

\* the priority list of a category, empty for a category that has none
priorityList(category) ==
    LET c == ToLower(TrimSpace(category))
    IN  IF c = <<"f", "i", "n", "a", "n", "c", "i", "a", "l">>
        THEN << <<"g", "r", "o", "s", "s", "R", "e", "v", "e", "n", "u", "e">>, <<"n", "e", "t", "R", "e", "v", "e", "n", "u", "e">>, <<"p", "r", "o", "f", "i", "t">>, <<"t", "o", "t", "a", "l", "E", "x", "p", "e", "n", "s", "e", "s">>,
                <<"t", "o", "t", "a", "l", "R", "e", "v", "e", "n", "u", "e">>, <<"v", "a", "t", "C", "o", "l", "l", "e", "c", "t", "e", "d">> >>
        ELSE IF c = <<"s", "a", "l", "e", "s">>
        THEN << <<"g", "r", "o", "s", "s", "R", "e", "v", "e", "n", "u", "e">>, <<"n", "e", "t", "R", "e", "v", "e", "n", "u", "e">>, <<"t", "o", "t", "a", "l", "R", "e", "v", "e", "n", "u", "e">>, <<"v", "a", "t", "C", "o", "l", "l", "e", "c", "t", "e", "d">>,
                <<"t", "r", "a", "n", "s", "a", "c", "t", "i", "o", "n", "s">> >>
        ELSE IF c = <<"r", "e", "s", "o", "u", "r", "c", "e", "s">>
        THEN << <<"t", "o", "t", "a", "l", "V", "a", "l", "u", "e">>, <<"m", "i", "l", "k", "L", "i", "t", "e", "r", "s">>, <<"e", "g", "g", "s", "C", "o", "u", "n", "t">>, <<"w", "o", "o", "l", "K", "g">> >>
        ELSE IF c = <<"h", "e", "a", "l", "t", "h">>
        THEN << <<"h", "e", "a", "l", "t", "h", "y">>, <<"a", "t", "t", "e", "n", "t", "i", "o", "n">>, <<"s", "i", "c", "k">> >>
        ELSE <<>>

\* C27: the summary keys are displayed in the priority order of the category,
\* then the other keys in ascending order: orderedReportSummaryKeys returns a
\* permutation of the given keys in which every priority key stands before
\* every other key, the priority keys stand in the order of the priority list
\* and the other keys ascend; for a category without a priority list all keys
\* ascend.
C27_KeysInPriorityOrder ==
    KeysOrdered =>
        LET given == callArgs.summaryKeys
            out == callResult
            priority == priorityList(callArgs.category)
            ranked == {priority[i] : i \in 1..Len(priority)}
            rank(k) == CHOOSE i \in 1..Len(priority) : priority[i] = k
        IN  /\ Len(out) = Len(given)
            /\ {out[i] : i \in 1..Len(out)} = {given[i] : i \in 1..Len(given)}
            /\ \A i, j \in 1..Len(out) :
                  i < j =>
                      /\ out[i] # out[j]
                      /\ out[j] \in ranked => out[i] \in ranked
                      /\ (out[i] \in ranked /\ out[j] \in ranked) => rank(out[i]) < rank(out[j])
                      /\ (out[i] \notin ranked /\ out[j] \notin ranked) =>
                            lessString(out[i], out[j])

\* the keys of a Sales summary with a key outside the priority list have been
\* ordered: vatCollected before transactions, the other keys last and
\* ascending
C27_Witness ==
    /\ KeysOrdered
    /\ callArgs.category = Sales
    /\ callArgs.summaryKeys = << <<"a", "t", "t", "e", "n", "t", "i", "o", "n">>, <<"a", "v", "e", "r", "a", "g", "e", "P", "r", "i", "c", "e">>, <<"g", "r", "o", "s", "s", "R", "e", "v", "e", "n", "u", "e">>,
                                 <<"t", "r", "a", "n", "s", "a", "c", "t", "i", "o", "n", "s">>, <<"v", "a", "t", "C", "o", "l", "l", "e", "c", "t", "e", "d">> >>
    /\ callResult = << <<"g", "r", "o", "s", "s", "R", "e", "v", "e", "n", "u", "e">>, <<"v", "a", "t", "C", "o", "l", "l", "e", "c", "t", "e", "d">>, <<"t", "r", "a", "n", "s", "a", "c", "t", "i", "o", "n", "s">>,
                       <<"a", "t", "t", "e", "n", "t", "i", "o", "n">>, <<"a", "v", "e", "r", "a", "g", "e", "P", "r", "i", "c", "e">> >>

(***************************************************************************)
(* C28: the cards of the Summary Metrics panel                             *)
(***************************************************************************)
\* what the label of a card begins with (reports_helpers.go:391); the note of
\* the records not shown begins with it too, at 58 60
CardLabelPrefix == <<"0", ".", "3", "0", " ", "0", ".", "3", "2", " ", "0", ".", "3", "0", " ", "r", "g", " ", "B", "T", " ", "/", "F", "1", " ", "8", " ", "T", "f", " ">>

\* the labels of the cards of a PDF in turn: where each is drawn and its text
cardLabels(pdf) ==
    LET lines == SelectSeq(linesWith(pdf, CardLabelPrefix),
                           LAMBDA line : ~HasPrefix(line, CardLabelPrefix \o <<"5", "8", " ", "6", "0", " ", "T", "d", " ", "(">>))
        x(line) == wordAt(line, Len(CardLabelPrefix) + 1, " ")
        y(line) == wordAt(line, Len(CardLabelPrefix) + Len(x(line)) + 2, " ")
    IN  [k \in 1..Len(lines) |->
            [x |-> numberOf(x(lines[k])), y |-> numberOf(y(lines[k])),
             text |-> shownText(lines[k])]]

\* the labels of the summary lines of call i in display order: the label of
\* each key, or 'metric' for the one line of a report without keys
metricLabels(i) ==
    LET keys == summaryKeysOrdered(content, rendered.orders[i])
    IN  IF keys = <<>> THEN << <<"m", "e", "t", "r", "i", "c">> >>
        ELSE [k \in 1..Len(keys) |-> prettyMetricLabel(keys[k])]

\* call i drew one card for each of the first six summary lines, card k (from
\* 0) in column k mod 3 and row k div 3, each showing what shownAs makes of
\* its label
cardsShow(i, shownAs(_)) ==
    LET cards == cardLabels(rendered.out[i])
        labels == metricLabels(i)
    IN  /\ Len(cards) <= 6
        /\ Len(cards) = Min({6, Len(labels)})
        /\ \A k \in 0..(Len(cards) - 1) :
              /\ cards[k + 1].x = <<50, 216, 382>>[(k % 3) + 1] + 8
              /\ cards[k + 1].y = <<538, 500>>[(k \div 3) + 1] + 18
              /\ cards[k + 1].text = pdfEscape(shownAs(labels[k + 1]))

\* C28 as stated: the Summary Metrics panel draws at most 6 cards, one per
\* summary line in display order, card k (from 0) in column k mod 3 and row
\* k div 3 of a grid of 3 columns and 2 rows, and the label on every card is
\* the upper-cased metric label cut to the label budget of the card.
C28_CardLabelsUpperCase ==
    WrotePDF =>
        \A i \in 1..Len(rendered.out) :
            cardsShow(i, LAMBDA label : ellipsis(ToUpper(label), 26))

\* C28: the Summary Metrics panel draws at most 6 cards, one per summary line
\* in display order, card k (from 0) in column k mod 3 and row k div 3 of a
\* grid of 3 columns and 2 rows, and the label on every card is the metric
\* label in the letter case of prettyMetricLabel ('Gross Revenue'), cut to the
\* label budget of 26 bytes.
C28_CardLabelsAsWritten ==
    WrotePDF =>
        \A i \in 1..Len(rendered.out) : cardsShow(i, LAMBDA label : ellipsis(label, 26))

\* a Financial report has been written: six cards, the fourth in the first
\* column of the second row, labelled 'Total Expenses'
C28_Witness ==
    /\ WrotePDF
    /\ content.category = Financial
    /\ Len(cardLabels(rendered.out[1])) = 6
    /\ cardLabels(rendered.out[1])[4] = [x |-> 58, y |-> 518, text |-> <<"T", "o", "t", "a", "l", " ", "E", "x", "p", "e", "n", "s", "e", "s">>]

(***************************************************************************)
(* C29: the placeholder of a report without records                        *)
(***************************************************************************)
NoRecordsText == <<"N", "o", " ", "r", "e", "c", "o", "r", "d", "s", " ", "a", "v", "a", "i", "l", "a", "b", "l", "e", " ", "i", "n", " ", "t", "h", "i", "s", " ", "r", "a", "n", "g", "e", ".">>

\* C29: for a report with zero records, in each of the four categories, the
\* text 'No records available in this range.' stands in the PDF in full, not
\* shortened with an ellipsis: the budget of the column it is drawn in is at
\* least the length of the text.
C29_PlaceholderInFull ==
    (WrotePDF /\ content.records = <<>> /\ content.category \in Categories) =>
        \A i \in 1..Len(rendered.out) :
            LET shown == linesWith(rendered.out[i], CellLinePrefix)
                widths == highlightColumnWidths(content.category, 2)
            IN  /\ Len(shown) = 2
                /\ shownText(shown[1]) = <<"1">>
                /\ shownText(shown[2]) = NoRecordsText
                /\ intMax(6, (widths[2] - 10) \div 4) >= Len(NoRecordsText)

(***************************************************************************)
(* C30: a download while sales are written                                 *)
(***************************************************************************)
\* C30: the summary and the records of one downloaded Sales report describe
\* the same state of the data store, whatever other requests insert or
\* delete meanwhile: for a window of fewer than 250 sales,
\* summary.transactions is the number of records and summary.grossRevenue the
\* sum of the totalAmount of the records, under every interleaving of the
\* queries of the download with the writes.
C30_SummaryOfRecords ==
    (Delivered /\ response.report.category = Sales
               /\ Len(response.report.records) < ReportRowLimit) =>
        LET records == response.report.records
        IN  /\ response.report.summary.transactions = Len(records)
            /\ response.report.summary.grossRevenue
                   = Sum([i \in 1..Len(records) |-> records[i].totalAmount])

====
